---- MODULE Spec2Model ----
(***************************************************************************)
(* Verification model of the Quant repository.                             *)
(*                                                                         *)
(*   Part I   Quant/Teste2.py: fiscal-period reconciliation of SEC company *)
(*            facts (extract_quarterly_data, process_company, insert_data, *)
(*            main).                                                       *)
(*   Part II  Quant/Aquisicao/Teste2.py: XBRL tag search                   *)
(*            (extract_values_direct_search,                               *)
(*            extract_financial_data_robust).                              *)
(*   Part III Quant/Aquisicao/Clear_Data.py: free-text extractors, fiscal  *)
(*            period and record assembly.                                  *)
(*   Part IV  Quant/Aquisicao/Data_to_db.py: ratios of the imported        *)
(*            records (FinancialDataImporter.calculate_financial_ratios).  *)
(*   Part V   Quant/Aquisicao/get_data.py: income ratios                   *)
(*            (extract_detailed_income_data, calculate_financial_ratios)   *)
(*            and calculate_and_save_ratios.                               *)
(*                                                                         *)
(* Dates are day numbers (ISO date strings compare like them); 0 stands    *)
(* for a missing fiscal year or period end (both are falsy in Python) and  *)
(* for a missing filed date (item.get('filed') is None; the sort key of    *)
(* such a fact is the empty string, which sorts before every date).        *)
(***************************************************************************)
EXTENDS Integers, Sequences, FiniteSets, TLC

VARIABLES
    api,            \* what data.sec.gov answers for each CIK (None or company facts)
    ciks,           \* main: CIKs of CIK.txt still to be processed
    pc,             \* position of main/process_company
    company_data,   \* process_company: the fetched company facts
    metric_idx,     \* process_company: index of the metric being processed
    fiscal_years,   \* process_company: fy -> period key -> retained fact
    sorted_years,   \* process_company: fiscal years still to be emitted
    quarters_shown, \* process_company: 'Quarterly' rows emitted for the metric
    ytd_shown,      \* process_company: whether the 'YTD' row was emitted
    db,             \* the four tables of the SQLite database
    successful,     \* main: companies processed successfully
    running,        \* calls of process_company made in parallel by a caller
    xcontent,       \* process_financial_statements: content of the filing
    xpc,            \* position of extract_financial_data_robust
    xmetric,        \* extract_financial_data_robust: index of the metric
    x_all_data,     \* extract_financial_data_robust: all_data, the data points found
    xtables,        \* process_financial_statements: the rows of the filing's HTML tables
    x_db,           \* the rows of financial_statements in financial_data.db
    tcontent,       \* parse_financial_statement_generic: text of the filing
    tpc,            \* position of parse_financial_statement_generic
    file_info,      \* parse_financial_statement_generic: what parse_filename found
    period_info,    \* result of calculate_fiscal_period_generic
    income_data,    \* result of extract_income_statement_generic
    balance_data,   \* result of extract_balance_sheet_generic
    cash_flow_data, \* result of extract_cash_flow_generic
    financial_data, \* result of prepare_data_for_csv_generic
    fin_rows,       \* FinancialDataImporter: the rows fetched from financial_statements
    row_idx,        \* FinancialDataImporter: index of the row being processed
    balance_sheets, \* FinancialDataImporter: quarter -> data_json of balance_sheets
    ratios,         \* FinancialDataImporter: the rows of the table ratios
    rpc,            \* position of FinancialDataImporter.calculate_financial_ratios
    income_stmt,    \* get_data: stock.income_stmt, its row labels and year columns
    year_idx,       \* extract_detailed_income_data: index of the column being read
    income_arg,     \* the dict object passed to calculate_financial_ratios
    g_year_data,    \* extract_detailed_income_data: what year_data is bound to
    previous_year_data, \* extract_detailed_income_data: copy of the previous year_data
    income_data_list,   \* extract_detailed_income_data: the records appended
    g_balance,      \* calculate_and_save_ratios: the balance sheet JSON found
    g_financial,    \* calculate_and_save_ratios: the financial_statements row found
    g_ratios,       \* get_data: the rows of the table ratios
    gpc,            \* position of extract_detailed_income_data / calculate_and_save_ratios
    force_refresh,  \* get_data: the setting FORCE_REFRESH
    utc_offset,     \* get_data: hours the local clock is ahead of UTC
    tickers_requested,   \* __main__: the tickers of Tickers.txt
    tickers_to_process,  \* __main__: what get_tickers_to_process returned
    ticker_idx,     \* fetch_financial_data_batch: position in tickers
    yahoo,          \* what yfinance answers for each ticker
    all_financial_data,     \* fetch_financial_data_batch: the frames collected
    all_income_statements,  \* fetch_financial_data_batch: the records collected
    processing_log,         \* table processing_log
    financial_statements,   \* table financial_statements
    income_statements,      \* table income_statements
    runs,           \* number of get_data runs started
    run_pc          \* position of __main__

varsI == <<api, ciks, pc, company_data, metric_idx, fiscal_years, sorted_years,
           quarters_shown, ytd_shown, db, successful, running>>

varsII == <<xcontent, xpc, xmetric, x_all_data, xtables, x_db>>

varsIII == <<tcontent, tpc, file_info, period_info, income_data, balance_data,
             cash_flow_data, financial_data>>

varsIV == <<fin_rows, row_idx, balance_sheets, ratios, rpc>>

varsYear == <<income_stmt, year_idx, income_arg, g_year_data, previous_year_data,
              income_data_list, g_balance, g_financial, g_ratios, gpc>>

varsRun == <<force_refresh, utc_offset, tickers_requested, tickers_to_process,
             ticker_idx, yahoo, all_financial_data, all_income_statements,
             processing_log, financial_statements, income_statements, runs, run_pc>>

varsV == <<varsYear, varsRun>>

vars == <<varsI, varsII, varsIII, varsIV, varsV>>

(***************************************************************************)
(* Bounds of the model                                                     *)
(***************************************************************************)
MaxFacts == 2       \* longest fact list of the duplicate-fact inputs
MaxYears == 3       \* fiscal years spanned by the filing-history inputs
MaxCiks == 2        \* longest CIK.txt
MaxElems == 2       \* most tagged elements in a filing
MaxLines == 2       \* most labelled lines in a filing text
MaxTableRows == 2   \* most rows in the HTML tables of a filing

(***************************************************************************)
(* Program constants                                                       *)
(***************************************************************************)
NUM_QUARTERS == 8

None == "None"

QOrder == <<"Q4", "Q3", "Q2", "Q1">>
Quarters == {"Q1", "Q2", "Q3", "Q4"}
Periods == Quarters \cup {"FY"}

\* prev_q = {'Q4': 'Q3', 'Q3': 'Q2', 'Q2': 'Q1', 'Q1': None}[q]
PrevQ(q) == CASE q = "Q4" -> "Q3" [] q = "Q3" -> "Q2" [] q = "Q2" -> "Q1" [] OTHER -> None

\* The metrics table of process_company (a representative subset: the revenue
\* line, the net-income line that appears under two statements, and one
\* balance-sheet line), in the order of the dict.
Metrics ==
    << [stmt |-> "Income Statement",
        tag |-> "RevenueFromContractWithCustomerExcludingAssessedTax",
        label |-> "Revenue"],
       [stmt |-> "Income Statement", tag |-> "NetIncomeLoss", label |-> "Net Income"],
       [stmt |-> "Balance Sheet", tag |-> "CashAndCashEquivalentsAtCarryingValue",
        label |-> "Cash and Cash Equivalents"],
       [stmt |-> "Cash Flow Statement", tag |-> "NetIncomeLoss", label |-> "Net Income"] >>

RevenueTag == Metrics[1].tag

\* table_map of insert_data
TableOf(statement_type) ==
    CASE statement_type = "Income Statement" -> "income_statement"
      [] statement_type = "Balance Sheet" -> "balance_sheet"
      [] statement_type = "Cash Flow Statement" -> "cash_flow_statement"
      [] OTHER -> None

(***************************************************************************)
(* Small helpers on finite maps (Python dicts)                             *)
(***************************************************************************)
Put(f, k, v) == [x \in (DOMAIN f) \cup {k} |-> IF x = k THEN v ELSE f[x]]

Has(f, k) == k \in DOMAIN f

EmptyDict == <<>>

RECURSIVE SetToSortedDesc(_)
\* sorted(fiscal_years.keys(), reverse=True)
SetToSortedDesc(S) ==
    IF S = {} THEN <<>>
    ELSE LET m == CHOOSE x \in S : \A y \in S : y <= x
         IN <<m>> \o SetToSortedDesc(S \ {m})

(***************************************************************************)
(* extract_quarterly_data                                                  *)
(***************************************************************************)
\* sort key (x.get('end',''), x.get('filed','')), compared as a tuple
KeyGE(a, b) == a.end > b.end \/ (a.end = b.end /\ a.filed >= b.filed)

\* Number of leading elements of the descending list s whose key is >= x's.
RECURSIVE CountGE(_, _)
CountGE(s, x) ==
    IF s = <<>> THEN 0
    ELSE IF KeyGE(Head(s), x) THEN 1 + CountGE(Tail(s), x) ELSE 0

\* list.sort(key=..., reverse=True) is stable: equal keys keep input order.
RECURSIVE SortData(_)
SortData(s) ==
    IF s = <<>> THEN <<>>
    ELSE LET n == Len(s)
             pre == SortData(SubSeq(s, 1, n - 1))
             x == s[n]
             k == CountGE(pre, x)
         IN SubSeq(pre, 1, k) \o <<x>> \o SubSeq(pre, k + 1, Len(pre))

IsPeriodicForm(item) == item.form \in {"10-Q", "10-K"}

\* returns <<data, found>>
ExtractQuarterlyData(facts_data, metric_name) ==
    IF metric_name # facts_data.concept
    THEN << <<>>, FALSE >>
    ELSE << SortData(SelectSeq(facts_data.facts, IsPeriodicForm)), TRUE >>

(***************************************************************************)
(* process_company: grouping of the facts of one metric                    *)
(***************************************************************************)
\* an insert into tables keyed by period and metric only: a row replaces the
\* row another company stored under the same period and metric
SamePeriodAndMetric(r1, r2) ==
    /\ r1.fiscal_year = r2.fiscal_year
    /\ r1.fiscal_period = r2.fiscal_period
    /\ r1.metric_name = r2.metric_name
    /\ r1.statement_type = r2.statement_type
    /\ r1.value_type = r2.value_type

InsertOrReplaceData(d, row) ==
    LET Others(r) == ~SamePeriodAndMetric(r, row)
    IN [t \in DOMAIN d |-> Append(SelectSeq(d[t], Others), row)]

\* the comparison turned around: an older filing replaces a newer one
FiledLess(filed, kept) == filed < kept

\* filed > fiscal_years[fy][key].get('filed', '')
FiledGreater(filed, kept) == filed > kept

GroupStep(fyrs, item) ==
    IF item.fy = 0 \/ item.end = 0
    THEN fyrs
    ELSE LET yd == IF Has(fyrs, item.fy) THEN fyrs[item.fy] ELSE EmptyDict
             key == item.fp
         IN IF ~Has(yd, key) \/ FiledGreater(item.filed, yd[key].filed)
            THEN Put(fyrs, item.fy,
                     Put(yd, key, [value |-> item.val, end_date |-> item.end,
                                   filed |-> item.filed, fp |-> item.fp]))
            ELSE Put(fyrs, item.fy, yd)

RECURSIVE GroupFrom(_, _)
GroupFrom(data, fyrs) ==
    IF data = <<>> THEN fyrs
    ELSE GroupFrom(Tail(data), GroupStep(fyrs, Head(data)))

GroupFacts(all_data) == GroupFrom(all_data, EmptyDict)

\* item.get('filed') of a fact without a filed date
NoFiled == 0

\* line 267: 'filed > fiscal_years[fy][key].get("filed", "")' is evaluated when
\* the key is already kept; the kept entry always has the key 'filed', so the
\* comparison has None on one side as soon as either fact lacks its filed
\* date, and None does not compare with a string or with None: TypeError.
ComparisonRaises(fyrs, item) ==
    /\ item.fy # 0
    /\ item.end # 0
    /\ Has(fyrs, item.fy)
    /\ Has(fyrs[item.fy], item.fp)
    /\ (item.filed = NoFiled \/ fyrs[item.fy][item.fp].filed = NoFiled)

RECURSIVE GroupRaisesFrom(_, _)
GroupRaisesFrom(data, fyrs) ==
    IF data = <<>> THEN FALSE
    ELSE IF ComparisonRaises(fyrs, Head(data)) THEN TRUE
    ELSE GroupRaisesFrom(Tail(data), GroupStep(fyrs, Head(data)))

\* whether the loop of lines 252-273 raises TypeError on all_data
GroupRaises(all_data) == GroupRaisesFrom(all_data, EmptyDict)

(***************************************************************************)
(* process_company: emission of the rows of one fiscal year                *)
(***************************************************************************)
FormatValue(value) == value

Truthy(value) == value # 0

Row(cik, m, fy, fp, d, value_type, value) ==
    [cik |-> cik, fiscal_year |-> fy, fiscal_period |-> fp, end_date |-> d.end_date,
     filed_date |-> d.filed, statement_type |-> m.stmt, metric_name |-> m.label,
     metric_tag |-> m.tag, value_type |-> value_type, value |-> FormatValue(value)]

\* for q in ['Q4', 'Q3', 'Q2', 'Q1']: if q in year_data: latest_q = q; break
LatestQ(year_data) ==
    IF Has(year_data, "Q4") THEN "Q4"
    ELSE IF Has(year_data, "Q3") THEN "Q3"
    ELSE IF Has(year_data, "Q2") THEN "Q2"
    ELSE IF Has(year_data, "Q1") THEN "Q1"
    ELSE None

\* lines 309-315
QuarterlyValue(year_data, q) ==
    LET quarterly_value == year_data[q].value
        prev_q == PrevQ(q)
    IN IF prev_q # None /\ Has(year_data, prev_q)
       THEN LET prev_value == year_data[prev_q].value
            IN IF Truthy(prev_value) /\ Truthy(quarterly_value)
               THEN quarterly_value - prev_value
               ELSE quarterly_value
       ELSE quarterly_value

RECURSIVE EmitQuartersUncapped(_, _, _, _, _, _)
\* the loop over the quarters without the NUM_QUARTERS test of lines 304-305
EmitQuartersUncapped(cik, m, fy, year_data, i, st) ==
    IF i > Len(QOrder)
    THEN st
    ELSE LET q == QOrder[i]
         IN IF Has(year_data, q)
            THEN EmitQuartersUncapped(cik, m, fy, year_data, i + 1,
                     [rows |-> Append(st.rows,
                                  Row(cik, m, fy, q, year_data[q], "Quarterly",
                                      QuarterlyValue(year_data, q))),
                      qs |-> st.qs + 1])
            ELSE EmitQuartersUncapped(cik, m, fy, year_data, i + 1, st)

\* The 'Quarters individuais' loop from position i of QOrder on; st = [rows, qs].
RECURSIVE EmitQuarters(_, _, _, _, _, _)
EmitQuarters(cik, m, fy, year_data, i, st) ==
    IF i > Len(QOrder) \/ st.qs >= NUM_QUARTERS
    THEN st
    ELSE LET q == QOrder[i]
         IN IF Has(year_data, q)
            THEN EmitQuarters(cik, m, fy, year_data, i + 1,
                     [rows |-> Append(st.rows,
                                  Row(cik, m, fy, q, year_data[q], "Quarterly",
                                      QuarterlyValue(year_data, q))),
                      qs |-> st.qs + 1])
            ELSE EmitQuarters(cik, m, fy, year_data, i + 1, st)

\* EmitYear without the NUM_QUARTERS test on the 'Full Year' row
EmitYearAlwaysFullYear(cik, m, fy, year_data, qs, ytd) ==
    LET latest_q == LatestQ(year_data)
        doYtd == ~ytd /\ latest_q # None
        ytdRows == IF doYtd
                   THEN << Row(cik, m, fy, latest_q, year_data[latest_q], "YTD",
                               year_data[latest_q].value) >>
                   ELSE <<>>
        qst == EmitQuarters(cik, m, fy, year_data, 1, [rows |-> ytdRows, qs |-> qs])
        fyRows == IF Has(year_data, "FY")
                  THEN << Row(cik, m, fy, "FY", year_data["FY"], "Full Year",
                              year_data["FY"].value) >>
                  ELSE <<>>
    IN [rows |-> qst.rows \o fyRows, qs |-> qst.qs, ytd |-> (ytd \/ doYtd)]

\* One iteration of 'for fy in sorted_years' (lines 283-331):
\* returns [rows, qs, ytd].
EmitYear(cik, m, fy, year_data, qs, ytd) ==
    LET latest_q == LatestQ(year_data)
        doYtd == ~ytd /\ latest_q # None
        ytdRows == IF doYtd
                   THEN << Row(cik, m, fy, latest_q, year_data[latest_q], "YTD",
                               year_data[latest_q].value) >>
                   ELSE <<>>
        qst == EmitQuarters(cik, m, fy, year_data, 1, [rows |-> ytdRows, qs |-> qs])
        fyRows == IF Has(year_data, "FY") /\ qst.qs < NUM_QUARTERS
                  THEN << Row(cik, m, fy, "FY", year_data["FY"], "Full Year",
                              year_data["FY"].value) >>
                  ELSE <<>>
    IN [rows |-> qst.rows \o fyRows, qs |-> qst.qs, ytd |-> (ytd \/ doYtd)]

(***************************************************************************)
(* insert_data                                                             *)
(***************************************************************************)
InsertData(d, row) ==
    LET main == [d EXCEPT !.financial_statements = Append(@, row)]
        table_name == TableOf(row.statement_type)
    IN IF row.value_type = "Quarterly" /\ table_name # None
       THEN [main EXCEPT ![table_name] = Append(@, row)]
       ELSE main

RECURSIVE InsertAll(_, _)
InsertAll(d, rows) ==
    IF rows = <<>> THEN d ELSE InsertAll(InsertData(d, Head(rows)), Tail(rows))

\* create_database: four empty tables
EmptyDb == [financial_statements |-> <<>>, income_statement |-> <<>>,
            balance_sheet |-> <<>>, cash_flow_statement |-> <<>>]

(***************************************************************************)
(* process_company as a function of the company facts: the rows it inserts *)
(***************************************************************************)
RECURSIVE EmitYears(_, _, _, _, _)
\* the loop 'for fy in sorted_years' (lines 279-331); st = [rows, qs, ytd]
EmitYears(cik, m, fyrs, years, st) ==
    IF years = <<>> \/ st.qs >= NUM_QUARTERS
    THEN st.rows
    ELSE LET out == EmitYear(cik, m, Head(years), fyrs[Head(years)], st.qs, st.ytd)
         IN EmitYears(cik, m, fyrs, Tail(years),
                      [rows |-> st.rows \o out.rows, qs |-> out.qs, ytd |-> out.ytd])

\* the body of the loop over the metrics (lines 247-331) for one metric
MetricRows(cik, facts_data, m) ==
    LET ex == ExtractQuarterlyData(facts_data, m.tag)
    IN IF ex[2] /\ ex[1] # <<>>
       THEN LET fyrs == GroupFacts(ex[1])
            IN EmitYears(cik, m, fyrs, SetToSortedDesc(DOMAIN fyrs),
                         [rows |-> <<>>, qs |-> 0, ytd |-> FALSE])
       ELSE <<>>

RECURSIVE ProcessCompanyRows(_, _, _)
\* the rows inserted for the metrics from index i on
ProcessCompanyRows(cik, facts_data, i) ==
    IF i > Len(Metrics) THEN <<>>
    ELSE MetricRows(cik, facts_data, Metrics[i]) \o ProcessCompanyRows(cik, facts_data, i + 1)

(***************************************************************************)
(* Inputs: what the SEC API may answer                                     *)
(***************************************************************************)
CIKS == {"0000320193", "0000789019"}

FirstCik == "0000320193"

NoResponse == [ok |-> FALSE, concept |-> None, facts |-> <<>>]

Response(concept, facts) == [ok |-> TRUE, concept |-> concept, facts |-> facts]

SeqsUpTo(S, n) == UNION {[1..k -> S] : k \in 0..n}

Fact(fy, fp, end, val, filed, form) ==
    [fy |-> fy, fp |-> fp, end |-> end, val |-> val, filed |-> filed, form |-> form]

\* (a) duplicate and restated facts of two quarters of one fiscal year, in
\*     every order, with zero and negative values
DuplicateFacts ==
    [fy : {2023}, fp : {"Q1", "Q2"}, end : {1, 2}, val : {-5, 0, 12},
     filed : {1, 2}, form : {"10-Q"}]

DuplicateResponses == {Response(RevenueTag, fs) : fs \in SeqsUpTo(DuplicateFacts, MaxFacts)}

\* (b) filing histories: each fiscal year reports some of its periods as
\*     year-to-date totals 100, 250, 400, 500 and the annual total 500
YearShapes == {Periods, Quarters, {"Q1", "Q2", "Q3", "FY"}, {"Q2", "Q4"}, {"FY"}, {}}

PeriodList == <<"Q1", "Q2", "Q3", "Q4", "FY">>

YtdOf(fp) ==
    CASE fp = "Q1" -> 100 [] fp = "Q2" -> 250 [] fp = "Q3" -> 400 [] OTHER -> 500

PeriodIndex(fp) == CHOOSE i \in 1..Len(PeriodList) : PeriodList[i] = fp

YearFacts(y, shape) ==
    LET all == [i \in 1..Len(PeriodList) |->
                  Fact(2020 + y, PeriodList[i], 10 * y + i, YtdOf(PeriodList[i]) + y,
                       10 * y + i + 1, IF PeriodList[i] = "FY" THEN "10-K" ELSE "10-Q")]
        InShape(f) == f.fp \in shape
    IN SelectSeq(all, InShape)

RECURSIVE HistoryFacts(_, _)
HistoryFacts(shapes, y) ==
    IF y > MaxYears THEN <<>> ELSE YearFacts(y, shapes[y]) \o HistoryFacts(shapes, y + 1)

HistoryResponses ==
    {Response(RevenueTag, HistoryFacts(shapes, 1)) : shapes \in [1..MaxYears -> YearShapes]}

\* (c) the same two facts reported under other concepts
TwoQuarters == << Fact(2023, "Q1", 1, 100, 2, "10-Q"), Fact(2023, "Q2", 2, 250, 3, "10-Q") >>

ConceptResponses ==
    {Response(c, TwoQuarters) :
        c \in {"SalesRevenueNet", "NetIncomeLoss", "CashAndCashEquivalentsAtCarryingValue"}}

\* (d) facts the program does not use: another form, no fiscal year, no period end
UnusableFacts ==
    {Fact(2023, "Q1", 1, 100, 2, "10-Q"), Fact(2023, "Q2", 2, 250, 3, "8-K"),
     Fact(0, "Q2", 2, 250, 3, "10-Q"), Fact(2023, "FY", 0, 500, 3, "10-K")}

UnusableResponses == {Response(RevenueTag, fs) : fs \in SeqsUpTo(UnusableFacts, MaxFacts)}

\* (e) facts that lack a filed date, a value (0) or a fiscal period (the
\*     default 'FY'), next to complete ones
IncompleteFacts ==
    {Fact(2023, "Q1", 1, 100, NoFiled, "10-Q"), Fact(2023, "Q1", 1, 100, 2, "10-Q"),
     Fact(2023, "Q2", 2, 0, 3, "10-Q"), Fact(2023, "FY", 2, 250, NoFiled, "10-Q")}

IncompleteResponses ==
    {Response(RevenueTag, fs) : fs \in SeqsUpTo(IncompleteFacts, MaxFacts)}

SingleResponses ==
    DuplicateResponses \cup HistoryResponses \cup ConceptResponses
        \cup UnusableResponses \cup IncompleteResponses \cup {NoResponse}

\* batches of several CIKs
BatchResponses ==
    {NoResponse, Response(RevenueTag, TwoQuarters),
     Response("NetIncomeLoss", << Fact(2023, "Q1", 1, 7, 2, "10-Q") >>),
     Response(RevenueTag, << Fact(2023, "Q1", 1, 100, NoFiled, "10-Q"),
                             Fact(2023, "Q1", 1, 120, 2, "10-Q") >>)}

CikFiles == SeqsUpTo(CIKS, MaxCiks) \ {<<>>}

(***************************************************************************)
(* main and process_company as a state machine                             *)
(***************************************************************************)
InitI ==
    /\ \/ /\ ciks = <<FirstCik>>
          /\ \E r \in SingleResponses :
                api = [c \in CIKS |-> IF c = FirstCik THEN r ELSE NoResponse]
       \/ /\ ciks \in CikFiles
          /\ api \in [CIKS -> BatchResponses]
    /\ pc = "main"
    /\ company_data = NoResponse
    /\ metric_idx = 0
    /\ fiscal_years = EmptyDict
    /\ sorted_years = <<>>
    /\ quarters_shown = 0
    /\ ytd_shown = FALSE
    /\ db = EmptyDb
    /\ successful = 0
    /\ running = <<>>

\* process_company, lines 164-170: fetch the company facts; a failed fetch
\* returns False and main goes on with the next CIK.
GetCompanyFacts ==
    /\ pc = "main"
    /\ ciks # <<>>
    /\ company_data' = api[Head(ciks)]
    /\ IF company_data'.ok
       THEN /\ pc' = "metric"
            /\ metric_idx' = 1
            /\ ciks' = ciks
       ELSE /\ pc' = "main"
            /\ metric_idx' = metric_idx
            /\ ciks' = Tail(ciks)
    /\ UNCHANGED <<api, fiscal_years, sorted_years, quarters_shown, ytd_shown, db,
                   successful, running, varsII, varsIII, varsIV, varsV>>

\* process_company, lines 246-277: extract, filter, sort and group the facts
\* of the next metric.
NextMetric ==
    /\ pc = "metric"
    /\ metric_idx <= Len(Metrics)
    /\ ~GroupRaises(ExtractQuarterlyData(company_data, Metrics[metric_idx].tag)[1])
    /\ LET ex == ExtractQuarterlyData(company_data, Metrics[metric_idx].tag)
           all_data == ex[1]
           found == ex[2]
       IN IF found /\ all_data # <<>>
          THEN /\ fiscal_years' = GroupFacts(all_data)
               /\ sorted_years' = SetToSortedDesc(DOMAIN fiscal_years')
               /\ quarters_shown' = 0
               /\ ytd_shown' = FALSE
               /\ pc' = "emit"
               /\ metric_idx' = metric_idx
          ELSE /\ metric_idx' = metric_idx + 1
               /\ UNCHANGED <<fiscal_years, sorted_years, quarters_shown, ytd_shown, pc>>
    /\ UNCHANGED <<api, ciks, company_data, db, successful, running, varsII, varsIII, varsIV, varsV>>

\* process_company, line 267 raises TypeError: nothing in process_company or
\* in main (lines 359-361) catches it, so the interpreter ends the run with
\* the remaining CIKs unprocessed and the connection never closed.
GroupingRaises ==
    /\ pc = "metric"
    /\ metric_idx <= Len(Metrics)
    /\ GroupRaises(ExtractQuarterlyData(company_data, Metrics[metric_idx].tag)[1])
    /\ pc' = "TypeError"
    /\ UNCHANGED <<api, ciks, company_data, metric_idx, fiscal_years, sorted_years,
                   quarters_shown, ytd_shown, db, successful, running, varsII, varsIII, varsIV,
                   varsV>>

\* process_company, lines 279-331: one iteration of the loop over the fiscal
\* years, with every insert_data it makes.
EmitFiscalYear ==
    /\ pc = "emit"
    /\ sorted_years # <<>>
    /\ quarters_shown < NUM_QUARTERS
    /\ LET fy == Head(sorted_years)
           out == EmitYear(Head(ciks), Metrics[metric_idx], fy, fiscal_years[fy],
                           quarters_shown, ytd_shown)
       IN /\ db' = InsertAll(db, out.rows)
          /\ quarters_shown' = out.qs
          /\ ytd_shown' = out.ytd
    /\ sorted_years' = Tail(sorted_years)
    /\ UNCHANGED <<api, ciks, pc, company_data, metric_idx, fiscal_years, successful,
                   running, varsII, varsIII, varsIV, varsV>>

\* process_company, lines 279-281: the loop over the fiscal years ends
\* (exhausted, or NUM_QUARTERS reached) and the next metric is taken.
EndOfYears ==
    /\ pc = "emit"
    /\ sorted_years = <<>> \/ quarters_shown >= NUM_QUARTERS
    /\ pc' = "metric"
    /\ metric_idx' = metric_idx + 1
    /\ UNCHANGED <<api, ciks, company_data, fiscal_years, sorted_years, quarters_shown,
                   ytd_shown, db, successful, running, varsII, varsIII, varsIV, varsV>>

\* process_company, line 334 and main, lines 360-361
ReturnTrue ==
    /\ pc = "metric"
    /\ metric_idx > Len(Metrics)
    /\ successful' = successful + 1
    /\ ciks' = Tail(ciks)
    /\ pc' = "main"
    /\ UNCHANGED <<api, company_data, metric_idx, fiscal_years, sorted_years,
                   quarters_shown, ytd_shown, db, running, varsII, varsIII, varsIV, varsV>>

\* main, line 363: conn.close()
CloseConnection ==
    /\ pc = "main"
    /\ ciks = <<>>
    /\ pc' = "done"
    /\ UNCHANGED <<api, ciks, company_data, metric_idx, fiscal_years, sorted_years,
                   quarters_shown, ytd_shown, db, successful, running, varsII, varsIII, varsIV, varsV>>

Next ==
    \/ GetCompanyFacts
    \/ NextMetric
    \/ GroupingRaises
    \/ EmitFiscalYear
    \/ EndOfYears
    \/ ReturnTrue
    \/ CloseConnection

\* Parts II and III at rest
IdleII ==
    /\ xcontent = <<>>
    /\ xpc = "idle"
    /\ xmetric = 0
    /\ x_all_data = <<>>
    /\ xtables = <<>>
    /\ x_db = <<>>

IdleIII ==
    /\ tcontent = <<>>
    /\ tpc = "idle"
    /\ file_info = None
    /\ period_info = None
    /\ financial_data = None
    /\ income_data = EmptyDict
    /\ balance_data = EmptyDict
    /\ cash_flow_data = EmptyDict

IdleIV ==
    /\ fin_rows = <<>>
    /\ row_idx = 0
    /\ balance_sheets = EmptyDict
    /\ ratios = <<>>
    /\ rpc = "idle"

IdleV ==
    /\ income_stmt = None
    /\ year_idx = 0
    /\ income_arg = EmptyDict
    /\ g_year_data = EmptyDict
    /\ previous_year_data = <<>>
    /\ income_data_list = <<>>
    /\ g_balance = <<>>
    /\ g_financial = <<>>
    /\ g_ratios = <<>>
    /\ gpc = "idle"
    /\ force_refresh = FALSE
    /\ utc_offset = 0
    /\ tickers_requested = <<>>
    /\ tickers_to_process = <<>>
    /\ ticker_idx = 0
    /\ yahoo = <<>>
    /\ all_financial_data = <<>>
    /\ all_income_statements = <<>>
    /\ processing_log = <<>>
    /\ financial_statements = <<>>
    /\ income_statements = <<>>
    /\ runs = 0
    /\ run_pc = "idle"

Init == InitI /\ IdleII /\ IdleIII /\ IdleIV /\ IdleV

Spec == Init /\ [][Next]_vars

TypeOK ==
    /\ pc \in {"main", "metric", "emit", "done", "TypeError"}
    /\ quarters_shown \in 0..NUM_QUARTERS
    /\ ytd_shown \in BOOLEAN

(***************************************************************************)
(* Vocabulary of the properties of Part I                                  *)
(***************************************************************************)
Range(s) == {s[i] : i \in DOMAIN s}

AllRows == Range(db.financial_statements)

StatementTables == {"income_statement", "balance_sheet", "cash_flow_statement"}

\* process_company is about to return True for the CIK at the head of ciks:
\* every metric of that company has been emitted.
AtReturn == pc = "metric" /\ metric_idx > Len(Metrics)

\* The facts of a metric tag that the program uses: reported under that
\* concept on a 10-Q or 10-K, with a fiscal year and a period end.
UsableFacts(c, tag) ==
    IF api[c].ok /\ api[c].concept = tag
    THEN {f \in Range(api[c].facts) : f.form \in {"10-Q", "10-K"} /\ f.fy # 0 /\ f.end # 0}
    ELSE {}

FactsOfKey(c, tag, fy, fp) == {f \in UsableFacts(c, tag) : f.fy = fy /\ f.fp = fp}

MaxFiled(F) == CHOOSE d \in {f.filed : f \in F} : \A f \in F : f.filed <= d

\* The retained (authoritative) facts of a metric tag of a company.
Retained(c, tag) == GroupFacts(ExtractQuarterlyData(api[c], tag)[1])

RowsOfMetric(c, m) ==
    {r \in AllRows : r.cik = c /\ r.metric_tag = m.tag /\ r.statement_type = m.stmt}

PermSeqs(s) == {[i \in 1..Len(s) |-> s[p[i]]] : p \in Permutations(1..Len(s))}

(***************************************************************************)
(* C1: every 'Quarterly' row of Q2..Q4 whose predecessor quarter has a     *)
(* fact carries value(Q) - value(Q-1), zero and negative values included;  *)
(* a 'Quarterly' row of Q1 carries the Q1 value.                           *)
(***************************************************************************)
C1_QuarterlyIsDifference ==
    \A r \in AllRows :
        r.value_type = "Quarterly" =>
            LET yd == Retained(r.cik, r.metric_tag)[r.fiscal_year]
                q == r.fiscal_period
            IN IF q = "Q1" THEN r.value = yd["Q1"].value
               ELSE Has(yd, PrevQ(q)) => r.value = yd[q].value - yd[PrevQ(q)].value

(***************************************************************************)
(* C2: when the most recent fiscal year of a metric has facts for Q1, Q2,  *)
(* Q3 and FY (and none for Q4), the finished run holds four quarterly      *)
(* values for that year, the fourth being FY - YTD(Q3).                    *)
(***************************************************************************)
C2_FourthQuarterFromFY ==
    AtReturn =>
        \A i \in DOMAIN Metrics :
            LET m == Metrics[i]
                c == Head(ciks)
                ret == Retained(c, m.tag)
            IN \A y \in DOMAIN ret :
                ( /\ \A z \in DOMAIN ret : z <= y
                  /\ DOMAIN ret[y] = {"Q1", "Q2", "Q3", "FY"} )
                =>
                \E r \in RowsOfMetric(c, m) :
                    /\ r.value_type = "Quarterly"
                    /\ r.fiscal_year = y
                    /\ r.fiscal_period = "Q4"
                    /\ r.value = ret[y]["FY"].value - ret[y]["Q3"].value

(***************************************************************************)
(* C3: no 'Quarterly' row is emitted for a quarter Q2..Q4 whose            *)
(* predecessor quarter has no fact in the same fiscal year.                *)
(***************************************************************************)
C3_NoValueWithoutPredecessor ==
    \A r \in AllRows :
        (r.value_type = "Quarterly" /\ r.fiscal_period \in {"Q2", "Q3", "Q4"})
            => FactsOfKey(r.cik, r.metric_tag, r.fiscal_year, PrevQ(r.fiscal_period)) # {}

(***************************************************************************)
(* C4: the fact retained for a (fiscal_year, fiscal_period) key is one of  *)
(* the usable facts of that key with the maximum filed date, and every row *)
(* emitted for the key carries that fact's filed date, period end and (for *)
(* the 'YTD' and 'Full Year' rows) its value.                              *)
(***************************************************************************)
C4_LatestFiledRetained ==
    /\ pc = "emit" =>
          \A y \in DOMAIN fiscal_years : \A k \in DOMAIN fiscal_years[y] :
              LET F == FactsOfKey(Head(ciks), Metrics[metric_idx].tag, y, k)
                  kept == fiscal_years[y][k]
              IN /\ \E f \in F : /\ f.val = kept.value
                                 /\ f.end = kept.end_date
                                 /\ f.filed = kept.filed
                 /\ \A f \in F : f.filed <= kept.filed
    /\ \A r \in AllRows :
          LET F == FactsOfKey(r.cik, r.metric_tag, r.fiscal_year, r.fiscal_period)
          IN /\ F # {}
             /\ r.filed_date = MaxFiled(F)
             /\ \E f \in F : /\ f.filed = r.filed_date
                             /\ f.end = r.end_date
                             /\ r.value_type \in {"YTD", "Full Year"} => f.val = r.value

\* a key with an older and a newer filing of different values has been emitted
C4_Witness ==
    /\ pc = "done"
    /\ \E r \in AllRows :
          \E f, g \in FactsOfKey(r.cik, r.metric_tag, r.fiscal_year, r.fiscal_period) :
              /\ f.filed < g.filed
              /\ f.val # g.val
              /\ r.value_type = "YTD"
              /\ r.value = g.val

(***************************************************************************)
(* C5: the rows a finished run holds for a company are the rows obtained   *)
(* from any permutation of that company's fact sequence.                   *)
(***************************************************************************)
C5_OrderIndependent ==
    AtReturn =>
        LET c == Head(ciks)
        IN \A fs \in PermSeqs(api[c].facts) :
              Range(ProcessCompanyRows(c, Response(api[c].concept, fs), 1))
                  = {r \in AllRows : r.cik = c}

(***************************************************************************)
(* C6: each output table holds at most one row per                         *)
(* (cik, fiscal_year, fiscal_period, metric_name).                         *)
(***************************************************************************)
SameKey(r1, r2) ==
    /\ r1.cik = r2.cik
    /\ r1.fiscal_year = r2.fiscal_year
    /\ r1.fiscal_period = r2.fiscal_period
    /\ r1.metric_name = r2.metric_name

C6_OneValuePerKey ==
    \A t \in StatementTables \cup {"financial_statements"} :
        \A i, j \in DOMAIN db[t] : SameKey(db[t][i], db[t][j]) => i = j

(***************************************************************************)
(* C7 (as stated): in a finished run every (fiscal_year, fiscal_period)    *)
(* with a usable fact has an output row of its metric.                     *)
(***************************************************************************)
HasOutput(c, m, fy, fp) ==
    \E r \in RowsOfMetric(c, m) :
        /\ r.fiscal_year = fy
        /\ r.fiscal_period = fp
        /\ r.value_type = (IF fp = "FY" THEN "Full Year" ELSE "Quarterly")

QuarterNo(fp) == CASE fp = "Q1" -> 1 [] fp = "Q2" -> 2 [] fp = "Q3" -> 3 [] OTHER -> 4

QuarterKeys(c, tag) == {<<f.fy, f.fp>> : f \in {g \in UsableFacts(c, tag) : g.fp \in Quarters}}

QuartersBefore(c, tag, fy, fp) ==
    {k \in QuarterKeys(c, tag) :
        \/ k[1] > fy
        \/ k[1] = fy /\ (fp = "FY" \/ QuarterNo(k[2]) > QuarterNo(fp))}

DigitChars == {"0", "1", "2", "3", "4", "5", "6", "7", "8", "9"}

DigitVal(ch) ==
    CASE ch = "0" -> 0 [] ch = "1" -> 1 [] ch = "2" -> 2 [] ch = "3" -> 3 [] ch = "4" -> 4
      [] ch = "5" -> 5 [] ch = "6" -> 6 [] ch = "7" -> 7 [] ch = "8" -> 8 [] OTHER -> 9

AllDigits(s) == \A i \in DOMAIN s : s[i] \in DigitChars

RECURSIVE IntVal(_)
IntVal(s) == IF s = <<>> THEN 0 ELSE 10 * IntVal(SubSeq(s, 1, Len(s) - 1)) + DigitVal(s[Len(s)])

\* the first two decimals, as hundredths
HundredthsOf(frac) ==
    (IF Len(frac) >= 1 THEN 10 * DigitVal(frac[1]) ELSE 0)
        + (IF Len(frac) >= 2 THEN DigitVal(frac[2]) ELSE 0)

RECURSIVE LStrip(_)
LStrip(s) == IF s # <<>> /\ Head(s) = " " THEN LStrip(Tail(s)) ELSE s

RECURSIVE RStrip(_)
RStrip(s) == IF s # <<>> /\ s[Len(s)] = " " THEN RStrip(SubSeq(s, 1, Len(s) - 1)) ELSE s

\* str.strip()
Strip(s) == RStrip(LStrip(s))

\* str.replace(',', '')
RemoveCommas(s) == LET NotComma(ch) == ch # "," IN SelectSeq(s, NotComma)

\* the position of the first point of body, Len(body) + 1 without a point
DotAt(body) ==
    CHOOSE d \in 1..(Len(body) + 1) :
        /\ d = Len(body) + 1 \/ body[d] = "."
        /\ \A j \in 1..(d - 1) : body[j] # "."

\* digits, at most one point, at least one digit
ParseParts(ip, fr) ==
    IF AllDigits(ip) /\ AllDigits(fr) /\ (ip # <<>> \/ fr # <<>>)
    THEN [ok |-> TRUE, v |-> 100 * IntVal(ip) + HundredthsOf(fr)]
    ELSE [ok |-> FALSE, v |-> 0]

ParseUnsigned(body) ==
    ParseParts(SubSeq(body, 1, DotAt(body) - 1), SubSeq(body, DotAt(body) + 1, Len(body)))

Negated(r) == [ok |-> r.ok, v |-> 0 - r.v]

\* float(text) for plain decimal literals: surrounding blanks, an optional
\* sign, digits with at most one point and at least one digit; anything else
\* raises ValueError (ok = FALSE).
ParseFloat(text) ==
    IF Strip(text) # <<>> /\ Head(Strip(text)) = "-"
    THEN Negated(ParseUnsigned(Tail(Strip(text))))
    ELSE IF Strip(text) # <<>> /\ Head(Strip(text)) = "+"
    THEN ParseUnsigned(Tail(Strip(text)))
    ELSE ParseUnsigned(Strip(text))

Abs(v) == IF v < 0 THEN 0 - v ELSE v

(***************************************************************************)
(* Part II.  Aquisicao/Teste2.py: search of XBRL tags in a filing          *)
(***************************************************************************)
\* FINANCIAL_TAGS (the revenue and net-income entries)
FINANCIAL_TAGS ==
    [Revenue |-> << "RevenueFromContractWithCustomerExcludingAssessedTax", "Revenues",
                    "SalesRevenueNet", "RevenueFromContractWithCustomer",
                    "SalesRevenueGoodsNet", "SalesRevenueServicesNet" >>,
     Net_Income |-> << "NetIncomeLoss", "ProfitLoss" >>,
     Net_Income_CF |-> << "NetIncomeLoss" >>]

\* the (statement_type, metric) pairs extract_financial_data_robust walks
\* through, restricted to the metrics of FINANCIAL_TAGS above
XMetrics ==
    << [stmt |-> "Income Statement", metric |-> "Revenue"],
       [stmt |-> "Income Statement", metric |-> "Net_Income"],
       [stmt |-> "Cash Flow", metric |-> "Net_Income_CF"] >>

\* The three search patterns of a tag, on an element <ns:tag>text</ns:tag>
\* (ns = "" for an element without a namespace prefix):
\*   1  <us-gaap:Tag[^>]*>([^<]+)</us-gaap:Tag>
\*   2  <Tag[^>]*>([^<]+)</Tag>
\*   3  <[^>]*:Tag[^>]*>([^<]+)</[^>]*:Tag>
PatternMatches(p, tag, el) ==
    /\ el.tag = tag
    /\ el.text # <<>>
    /\ CASE p = 1 -> el.ns = "us-gaap"
         [] p = 2 -> el.ns = ""
         [] OTHER -> el.ns # ""

TextsOf(hits) == [i \in 1..Len(hits) |-> hits[i].text]

\* re.findall(pattern, content): the captured texts, in document order
FindAll(p, tag, content) ==
    LET Hit(el) == PatternMatches(p, tag, el)
    IN TextsOf(SelectSeq(content, Hit))

\* lines 187-189: value_text.startswith('(') and value_text.endswith(')')
IsNegative(value_text) ==
    value_text # <<>> /\ Head(value_text) = "(" /\ value_text[Len(value_text)] = ")"

\* line 196: abs(value) > 0.01, on hundredths
Significant(r) == [valid |-> r.ok /\ Abs(r.v) > 1, value |-> r.v]

\* lines 187-196 on the stripped text without commas
ParseValueText(value_text) ==
    IF IsNegative(value_text)
    THEN Significant(Negated(ParseFloat(SubSeq(value_text, 2, Len(value_text) - 1))))
    ELSE Significant(ParseFloat(value_text))

\* The body of 'for match in matches' (lines 180-201) on one match:
\* [valid, value]; an empty, unparsable or insignificant match is skipped.
ParseMatch(match) == ParseValueText(RemoveCommas(Strip(match)))

NoValue == [valid |-> FALSE, value |-> 0]

RECURSIVE FirstValid(_)
\* 'break' at line 198: the first valid match ends the loop over the matches
ValidOrNext(m, rest) == IF m.valid THEN m ELSE FirstValid(rest)

\* 'for match in matches': the first valid match of a list of matches
FirstValid(matches) ==
    IF matches = <<>> THEN NoValue
    ELSE ValidOrNext(ParseMatch(Head(matches)), Tail(matches))

\* values[tag] = value: a valid match replaces what an earlier pattern stored
Stored(m, found) == IF m.valid THEN m ELSE found

\* 'for pattern in patterns' for one tag, from pattern p on: the break at
\* line 198 leaves only the loop over the matches, so a later pattern with a
\* valid match overwrites values[tag].
RECURSIVE SearchTag(_, _, _, _)
SearchTag(tag, content, p, found) ==
    IF p > 3 THEN found
    ELSE SearchTag(tag, content, p + 1, Stored(FirstValid(FindAll(p, tag, content)), found))

\* the item of the dict values for a tag, if the tag got a value
ItemOf(tag, m) == IF m.valid THEN << <<tag, m.value>> >> ELSE <<>>

\* extract_values_direct_search: the dict values as the sequence of its
\* items (tag, value), in insertion order
RECURSIVE ExtractValuesDirectSearch(_, _)
ExtractValuesDirectSearch(content, tag_variations) ==
    IF tag_variations = <<>> THEN <<>>
    ELSE ItemOf(Head(tag_variations), SearchTag(Head(tag_variations), content, 1, NoValue))
            \o ExtractValuesDirectSearch(content, Tail(tag_variations))

\* lines 229-245: one data point per item of values
PointsFrom(values, xm) ==
    [i \in 1..Len(values) |->
        [statement_type |-> xm.stmt, metric_name |-> xm.metric,
         metric_value |-> values[i][2], unit |-> "USD",
         context_ref |-> <<xm.stmt, xm.metric>>]]

\* extract_financial_data_robust, lines 224-245: the data points of one metric
DataPoints(content, xm) ==
    PointsFrom(ExtractValuesDirectSearch(content, FINANCIAL_TAGS[xm.metric]), xm)

(***************************************************************************)
(* extract_from_html_tables.  A table row is the lower-case words of its   *)
(* first cell and the texts of the cells after it.                         *)
(***************************************************************************)
\* term_mapping (the revenue, cost-of-sales, net-income and total-assets
\* entries), in the order of the dict
TermMapping ==
    << [term |-> <<"revenue">>, metric |-> "Revenue"],
       [term |-> <<"sales">>, metric |-> "Revenue"],
       [term |-> <<"cost", "of", "sales">>, metric |-> "COGS"],
       [term |-> <<"net", "income">>, metric |-> "Net_Income"],
       [term |-> <<"total", "assets">>, metric |-> "Total_Assets"] >>

\* 'term in cell_text', on words
TermIn(term, cell_text) ==
    \E i \in 1..Len(cell_text) :
        i + Len(term) - 1 <= Len(cell_text) /\ SubSeq(cell_text, i, i + Len(term) - 1) = term

\* lines 319-329
StatementTypeOf(metric) ==
    IF metric \in {"Revenue", "COGS", "Net_Income"} THEN "Income Statement"
    ELSE IF metric \in {"Total_Assets"} THEN "Balance Sheet"
    ELSE "Cash Flow"

\* re.sub(r'[^\d\.\(\)\-]', '', value_text)
KeepNumeric(value_text) ==
    LET Kept(ch) == ch \in DigitChars \cup {".", "(", ")", "-"}
    IN SelectSeq(value_text, Kept)

\* lines 302-317 on one cell: an empty, unparsable or insignificant cell is
\* passed over
ParseCell(cell) ==
    IF Strip(cell) = <<>> THEN NoValue ELSE ParseValueText(KeepNumeric(Strip(cell)))

RECURSIVE FirstValidCell(_, _)
CellOrNext(m, cells, i) == IF m.valid THEN m ELSE FirstValidCell(cells, i + 1)

\* for i in range(1, min(4, len(cells))): the first of the three cells after
\* the label that holds a significant value
FirstValidCell(cells, i) ==
    IF i > 3 \/ i > Len(cells) THEN NoValue
    ELSE CellOrNext(ParseCell(cells[i]), cells, i)

HtmlPoint(metric, m) ==
    IF m.valid
    THEN << [statement_type |-> StatementTypeOf(metric), metric_name |-> metric,
             metric_value |-> m.value, unit |-> "USD", context_ref |-> <<"HTML_Table">>] >>
    ELSE <<>>

RECURSIVE FirstTerm(_, _)
\* for term, metric in term_mapping.items(): the first term found in the
\* label decides (the break of line 351)
FirstTerm(row, t) ==
    IF t > Len(TermMapping) THEN <<>>
    ELSE IF TermIn(TermMapping[t].term, row.label)
    THEN HtmlPoint(TermMapping[t].metric, FirstValidCell(row.cells, 1))
    ELSE FirstTerm(row, t + 1)

\* len(cells) >= 2: the label cell and at least one more
RowPoints(row) == IF Len(row.cells) >= 1 THEN FirstTerm(row, 1) ELSE <<>>

RECURSIVE ExtractFromHtmlTables(_)
ExtractFromHtmlTables(rows) ==
    IF rows = <<>> THEN <<>>
    ELSE RowPoints(Head(rows)) \o ExtractFromHtmlTables(Tail(rows))

(***************************************************************************)
(* save_to_database.  All data points of a filing carry its cik and        *)
(* filing_date, so the UNIQUE constraint of financial_statements           *)
(* distinguishes them by statement_type, metric_name and context_ref.      *)
(***************************************************************************)
SameUniqueKey(a, b) ==
    /\ a.statement_type = b.statement_type
    /\ a.metric_name = b.metric_name
    /\ a.context_ref = b.context_ref

\* INSERT OR REPLACE: the row that conflicts on the UNIQUE constraint is
\* deleted and the new row inserted
InsertOrReplaceInto(table, data) ==
    LET Other(r) == ~SameUniqueKey(r, data)
    IN Append(SelectSeq(table, Other), data)

RECURSIVE SaveToDatabase(_, _)
SaveToDatabase(table, data_points) ==
    IF data_points = <<>> THEN table
    ELSE SaveToDatabase(InsertOrReplaceInto(table, Head(data_points)), Tail(data_points))

\* Filing contents: up to MaxElems tagged elements
XTexts ==
    { <<"1", "0", "0">>, <<"2", "0", "0">>, <<"(", "1", ",", "2", "3", "4", ")">>,
      <<"0", ".", "0", "1">>, <<"n", "/", "a">>, <<" ">> }

XElements ==
    [ns : {"us-gaap", "", "ifrs-full"},
     tag : {"Revenues", "SalesRevenueNet", "NetIncomeLoss"},
     text : XTexts]

\* HTML tables: up to MaxTableRows rows
HLabels == { <<"total", "revenue">>, <<"cost", "of", "sales">>, <<"net", "income">>,
             <<"shares">> }

HCells ==
    { <<>>, << <<"$", " ", "3", "0", "0">> >>, << <<"(", "5", "0", ")">> >>,
      << <<"n", "/", "a">>, <<"7", "0", "0">> >>, << <<" ">>, <<"0", ".", "0", "1">> >> }

HRows == [label : HLabels, cells : HCells]

\* tagged contents of the filings that also hold tables
TaggedSamples ==
    { <<>>,
      << [ns |-> "us-gaap", tag |-> "Revenues", text |-> <<"1", "0", "0">>] >>,
      << [ns |-> "us-gaap", tag |-> "Revenues", text |-> <<"1", "0", "0">>],
         [ns |-> "us-gaap", tag |-> "SalesRevenueNet", text |-> <<"2", "0", "0">>] >> }

InitII ==
    /\ \/ /\ xcontent \in SeqsUpTo(XElements, MaxElems)
          /\ xtables = <<>>
       \/ /\ xcontent \in TaggedSamples
          /\ xtables \in SeqsUpTo(HRows, MaxTableRows)
    /\ xpc = "extract"
    /\ xmetric = 1
    /\ x_all_data = <<>>
    /\ x_db = <<>>

\* Part I at rest
IdleI ==
    /\ api = [c \in CIKS |-> NoResponse]
    /\ ciks = <<>>
    /\ pc = "done"
    /\ company_data = NoResponse
    /\ metric_idx = 0
    /\ fiscal_years = EmptyDict
    /\ sorted_years = <<>>
    /\ quarters_shown = 0
    /\ ytd_shown = FALSE
    /\ db = EmptyDb
    /\ successful = 0
    /\ running = <<>>

\* extract_financial_data_robust: one iteration of 'for metric in metrics'
ExtractMetric ==
    /\ xpc = "extract"
    /\ xmetric <= Len(XMetrics)
    /\ x_all_data' = x_all_data \o DataPoints(xcontent, XMetrics[xmetric])
    /\ xmetric' = xmetric + 1
    /\ UNCHANGED <<xcontent, xpc, xtables, x_db, varsI, varsIII, varsIV, varsV>>

\* extract_financial_data_robust: return all_data
ReturnAllData ==
    /\ xpc = "extract"
    /\ xmetric > Len(XMetrics)
    /\ xpc' = "extracted"
    /\ UNCHANGED <<xcontent, xmetric, x_all_data, xtables, x_db, varsI, varsIII, varsIV,
                   varsV>>

\* process_financial_statements, lines 375-382: both branches of
\* 'if not all_data' call extract_from_html_tables and extend all_data
ExtendWithHtmlTables ==
    /\ xpc = "extracted"
    /\ x_all_data' = x_all_data \o ExtractFromHtmlTables(xtables)
    /\ xpc' = "save"
    /\ UNCHANGED <<xcontent, xmetric, xtables, x_db, varsI, varsIII, varsIV, varsV>>

\* process_financial_statements, lines 385-399: save_to_database(all_data)
\* when there is any data, and return
SaveAndReturn ==
    /\ xpc = "save"
    /\ x_db' = SaveToDatabase(x_db, x_all_data)
    /\ xpc' = "returned"
    /\ UNCHANGED <<xcontent, xmetric, x_all_data, xtables, varsI, varsIII, varsIV, varsV>>

NextII == ExtractMetric \/ ReturnAllData \/ ExtendWithHtmlTables \/ SaveAndReturn

\* the extraction of one filing, with the other programs idle
InitExtraction == IdleI /\ InitII /\ IdleIII /\ IdleIV /\ IdleV

SpecII == InitExtraction /\ [][NextII]_vars

(***************************************************************************)
(* Vocabulary of the properties of Part II                                 *)
(***************************************************************************)
PointsOf(metric) == LET Is(dp) == dp.metric_name = metric IN SelectSeq(x_all_data, Is)

\* the matches of an alias that are non-empty, parse and exceed 0.01
ValidMatches(tag) ==
    {el \in Range(xcontent) : el.tag = tag /\ ParseMatch(el.text).valid}

\* the positions of the aliases of a metric that have a valid match
MatchingAliases(metric) ==
    {i \in DOMAIN FINANCIAL_TAGS[metric] : ValidMatches(FINANCIAL_TAGS[metric][i]) # {}}

(***************************************************************************)
(* C8: after extraction each metric has at most one data point, and its    *)
(* value is a valid match of the earliest alias that has one.              *)
(***************************************************************************)
C8_FirstAliasOnly ==
    xpc = "extracted" =>
        \A i \in DOMAIN XMetrics :
            LET metric == XMetrics[i].metric
                pts == PointsOf(metric)
                A == MatchingAliases(metric)
            IN /\ Len(pts) <= 1
               /\ A # {} =>
                     LET first == CHOOSE a \in A : \A b \in A : a <= b
                     IN /\ Len(pts) = 1
                        /\ \E el \in ValidMatches(FINANCIAL_TAGS[metric][first]) :
                              pts[1].metric_value = ParseMatch(el.text).value

(***************************************************************************)
(* C9: when the only revenue concept reported is SalesRevenueNet, the      *)
(* extraction paths that read XBRL concepts still produce the revenue      *)
(* metric, with a reported SalesRevenueNet value; stated here for          *)
(* process_company, which reads the concepts of the company facts.         *)
(***************************************************************************)
C9_RevenueFromSalesRevenueNet ==
    (AtReturn /\ api[Head(ciks)].ok /\ api[Head(ciks)].concept = "SalesRevenueNet")
        => \A f \in {g \in Range(api[Head(ciks)].facts) :
                        g.form \in {"10-Q", "10-K"} /\ g.fy # 0 /\ g.end # 0} :
              \E r \in AllRows :
                  /\ r.cik = Head(ciks)
                  /\ r.metric_name = "Revenue"
                  /\ r.fiscal_year = f.fy
                  /\ r.fiscal_period = f.fp

(***************************************************************************)
(* Part III.  Aquisicao/Clear_Data.py: extraction from the filing text     *)
(***************************************************************************)
\* A filing text is a sequence of lines; a line is a label (its lower-case
\* words) followed by a text.  A stored amount is [whole, cents].

RECURSIVE TakeWhile(_, _)
\* the longest prefix of s made of characters of the set C
TakeWhile(s, C) ==
    IF s # <<>> /\ Head(s) \in C THEN <<Head(s)>> \o TakeWhile(Tail(s), C) ELSE <<>>

\* [\$]?
DropDollar(a) == IF a # <<>> /\ Head(a) = "$" THEN Tail(a) ELSE a

\* \.?\d*
DotAndDigits(r) ==
    IF r # <<>> /\ Head(r) = "."
    THEN <<".">> \o TakeWhile(Tail(r), DigitChars)
    ELSE TakeWhile(r, DigitChars)

\* ([\d,]+\.?\d*) once [\d,]+ has taken run from c
CaptureAfter(run, c) ==
    [ok |-> run # <<>>, group |-> run \o DotAndDigits(SubSeq(c, Len(run) + 1, Len(c)))]

CaptureGroup(c) == CaptureAfter(TakeWhile(c, DigitChars \cup {","}), c)

\* \s*[\$]?\s*([\d,]+\.?\d*) applied right after the label: the captured
\* group, or no match
Capture(text) == CaptureGroup(LStrip(DropDollar(LStrip(text))))

\* the label of a pattern is matched case-insensitively wherever it stands
\* right before the amount: it is a suffix of the line's label
IsSuffix(p, l) == Len(p) <= Len(l) /\ SubSeq(l, Len(l) - Len(p) + 1, Len(l)) = p

GroupsOf(hits) == [i \in 1..Len(hits) |-> Capture(hits[i].text).group]

\* re.findall(pattern, content, re.IGNORECASE | re.MULTILINE)
FindAllText(pattern, content) ==
    LET Hit(line) == IsSuffix(pattern, line.label) /\ Capture(line.text).ok
    IN GroupsOf(SelectSeq(content, Hit))

\* the scale test with 1000 itself scaled
ScaleUpTo1000(v) ==
    IF v <= 100000 /\ v > 0
    THEN [whole |-> (v \div 100) * 1000000 + (v % 100) * 10000, cents |-> 0]
    ELSE [whole |-> v \div 100, cents |-> v % 100]

\* lines 216-217 (and 280-281, 334-335):
\*   if value < 1000 and value > 0: value = value * 1000000
\* v is the parsed amount in hundredths
ScaleValue(v) ==
    IF v < 100000 /\ v > 0
    THEN [whole |-> (v \div 100) * 1000000 + (v % 100) * 10000, cents |-> 0]
    ELSE [whole |-> v \div 100, cents |-> v % 100]

NotFound == [found |-> FALSE, value |-> [whole |-> 0, cents |-> 0]]

\* the loop over the patterns given up at the first ValueError
StopAtValueError(parsed, pattern_list, content, i) ==
    IF parsed.ok
    THEN [found |-> TRUE, value |-> ScaleValue(parsed.v)]
    ELSE NotFound

RECURSIVE FieldValue(_, _, _)
\* lines 212-222: a parsed value is scaled and stored and ends the loop over
\* the patterns; ValueError goes on with the next pattern
StoreOrNext(parsed, pattern_list, content, i) ==
    IF parsed.ok
    THEN [found |-> TRUE, value |-> ScaleValue(parsed.v)]
    ELSE FieldValue(pattern_list, content, i + 1)

\* lines 209-214: value_str = matches[-1]; float(value_str.replace(',', ''))
TryMatches(matches, pattern_list, content, i) ==
    IF matches # <<>>
    THEN StoreOrNext(ParseFloat(RemoveCommas(matches[Len(matches)])), pattern_list, content, i)
    ELSE FieldValue(pattern_list, content, i + 1)

\* 'for pattern in pattern_list' (lines 207-222) from pattern i on: the value
\* stored for the field, if any
FieldValue(pattern_list, content, i) ==
    IF i > Len(pattern_list) THEN NotFound
    ELSE TryMatches(FindAllText(pattern_list[i], content), pattern_list, content, i)

\* income_data[field] = value
PutFound(data, field, fv) == IF fv.found THEN Put(data, field, fv.value) ELSE data

\* 'for field, pattern_list in patterns.items()' (lines 206-222)
RECURSIVE ExtractFields(_, _, _, _)
ExtractFields(patterns, content, i, data) ==
    IF i > Len(patterns) THEN data
    ELSE ExtractFields(patterns, content, i + 1,
                       PutFound(data, patterns[i].field,
                                FieldValue(patterns[i].pattern_list, content, 1)))

\* amounts [whole, cents] are non-negative; their difference may be negative
\* and is kept in cents of the whole when it is
MinusAmount(a, b) ==
    IF a.cents >= b.cents
    THEN [whole |-> a.whole - b.whole, cents |-> a.cents - b.cents]
    ELSE [whole |-> a.whole - b.whole - 1, cents |-> 100 + a.cents - b.cents]

PlusAmount(a, b) ==
    [whole |-> a.whole + b.whole + (a.cents + b.cents) \div 100,
     cents |-> (a.cents + b.cents) % 100]

\* the patterns of extract_income_statement_generic for revenue (the first
\* two), gross_profit (the first) and cost_of_revenue (the first)
IncomePatterns ==
    << [field |-> "revenue", pattern_list |-> << <<"total", "revenue">>, <<"revenue">> >>],
       [field |-> "gross_profit", pattern_list |-> << <<"gross", "profit">> >>],
       [field |-> "cost_of_revenue", pattern_list |-> << <<"cost", "of", "revenue">> >>] >>

\* the patterns of extract_balance_sheet_generic for total_assets and
\* total_liabilities (re.IGNORECASE makes the two patterns of each the same)
BalancePatterns ==
    << [field |-> "total_assets",
        pattern_list |-> << <<"total", "assets">>, <<"total", "assets">> >>],
       [field |-> "total_liabilities",
        pattern_list |-> << <<"total", "liabilities">>, <<"total", "liabilities">> >>] >>

\* the patterns of extract_cash_flow_generic for operating_cash_flow (the
\* third), capital_expenditures (the first) and free_cash_flow
CashFlowPatterns ==
    << [field |-> "operating_cash_flow", pattern_list |-> << <<"operating", "cash", "flow">> >>],
       [field |-> "capital_expenditures", pattern_list |-> << <<"capital", "expenditures">> >>],
       [field |-> "free_cash_flow", pattern_list |-> << <<"free", "cash", "flow">> >>] >>

\* lines 225-226
WithGrossProfitCalculated(income) ==
    IF Has(income, "revenue") /\ Has(income, "cost_of_revenue")
    THEN Put(income, "gross_profit_calculated",
             MinusAmount(income["revenue"], income["cost_of_revenue"]))
    ELSE income

ExtractIncomeStatementGeneric(content) ==
    WithGrossProfitCalculated(ExtractFields(IncomePatterns, content, 1, EmptyDict))

\* lines 288-289
WithTotalEquity(balance) ==
    IF Has(balance, "total_assets") /\ Has(balance, "total_liabilities")
    THEN Put(balance, "total_equity",
             MinusAmount(balance["total_assets"], balance["total_liabilities"]))
    ELSE balance

ExtractBalanceSheetGeneric(content) ==
    WithTotalEquity(ExtractFields(BalancePatterns, content, 1, EmptyDict))

\* lines 342-343
WithFreeCashFlowCalculated(cash) ==
    IF ~Has(cash, "free_cash_flow") /\ Has(cash, "operating_cash_flow")
          /\ Has(cash, "capital_expenditures")
    THEN Put(cash, "free_cash_flow_calculated",
             PlusAmount(cash["operating_cash_flow"], cash["capital_expenditures"]))
    ELSE cash

ExtractCashFlowGeneric(content) ==
    WithFreeCashFlowCalculated(ExtractFields(CashFlowPatterns, content, 1, EmptyDict))

\* Filing texts: up to MaxLines labelled lines
TLabels ==
    { <<"total", "revenue">>, <<"revenue">>, <<"cost", "of", "revenue">>,
      <<"gross", "profit">>, <<"total", "assets">>, <<"capital", "expenditures">> }

TTexts ==
    { <<" ", "1", ".", "5">>, <<" ", "1", "5", "0", "0">>, <<" ", "1", "0", "0", "0">>,
      <<" ", "9", "9", "9", ".", "9", "9">>, <<" ", "0">>,
      <<" ", "$", " ", "1", ",", "2", "3", "4">>, <<" ", ",">>,
      <<" ", "(", "1", ",", "2", "3", "4", ")">> }

\* the revenue lines carry every number text, the other lines the texts that
\* separate millions from units
RevenueLabels == { <<"total", "revenue">>, <<"revenue">> }

UnitTexts == { <<" ", "1", ".", "5">>, <<" ", "1", "0", "0", "0">> }

TLines ==
    [label : RevenueLabels, text : TTexts]
        \cup [label : TLabels \ RevenueLabels, text : UnitTexts]

\* datetime.strptime(filing_date, '%Y-%m-%d'): the year and month of the date
FilingDates == [year : {2023, 2024}, month : 1..12]

\* parse_filename: ticker, form type and filing date from the file name
FileInfos == [ticker : {"AAPL"}, file_type : {"10-Q", "10-K"}, filing_date : FilingDates]

\* every text with one file, and every file with the empty text
InitIII ==
    /\ \/ /\ tcontent \in SeqsUpTo(TLines, MaxLines)
          /\ file_info = [ticker |-> "AAPL", file_type |-> "10-Q",
                          filing_date |-> [year |-> 2024, month |-> 5]]
       \/ /\ tcontent = <<>>
          /\ file_info \in FileInfos
    /\ tpc = "period"
    /\ period_info = None
    /\ income_data = EmptyDict
    /\ balance_data = EmptyDict
    /\ cash_flow_data = EmptyDict
    /\ financial_data = None

\* calculate_fiscal_period_generic: the fields of the result the record uses
CalculateFiscalPeriodGeneric(filing_date, ticker) ==
    [fiscal_year |-> filing_date.year,
     fiscal_quarter |-> <<"Q1", "Q2", "Q3", "Q4">>[(filing_date.month - 1) \div 3 + 1]]

\* dict.get(key, default)
Get(dict, key, default) == IF Has(dict, key) THEN dict[key] ELSE default

ZeroAmount == [whole |-> 0, cents |-> 0]

\* abs() of an amount
AbsAmount(a) ==
    IF a.whole < 0 THEN [whole |-> 0 - a.whole, cents |-> a.cents] ELSE a

\* prepare_data_for_csv_generic
PrepareDataForCsvGeneric(income, balance, cash, period, ticker) ==
    [ticker |-> ticker,
     year |-> period.fiscal_year,
     quarter |-> period.fiscal_quarter,
     sector |-> "Technology",
     revenue |-> Get(income, "revenue", ZeroAmount),
     gross_profit |-> Get(income, "gross_profit",
                          Get(income, "gross_profit_calculated", ZeroAmount)),
     ebitda |-> Get(income, "operating_income", ZeroAmount),
     net_income |-> Get(income, "net_income", ZeroAmount),
     total_assets |-> Get(balance, "total_assets", ZeroAmount),
     total_liabilities |-> Get(balance, "total_liabilities", ZeroAmount),
     total_debt |-> Get(balance, "total_debt", ZeroAmount),
     capex |-> AbsAmount(Get(cash, "capital_expenditures", ZeroAmount)),
     free_cash_flow |-> Get(cash, "free_cash_flow",
                            Get(cash, "free_cash_flow_calculated", ZeroAmount)),
     operating_cash_flow |-> Get(cash, "operating_cash_flow", ZeroAmount),
     cogs |-> Get(income, "cost_of_revenue", ZeroAmount),
     sga_expense |-> Get(income, "selling_general_admin", ZeroAmount),
     rd_expense |-> Get(income, "research_development", ZeroAmount),
     operating_income |-> Get(income, "operating_income", ZeroAmount)]

\* parse_financial_statement_generic, lines 115-116
CalculatePeriod ==
    /\ tpc = "period"
    /\ period_info' = CalculateFiscalPeriodGeneric(file_info.filing_date, file_info.ticker)
    /\ tpc' = "income"
    /\ UNCHANGED <<tcontent, file_info, income_data, balance_data, cash_flow_data,
                   financial_data, varsI, varsII, varsIV, varsV>>

\* parse_financial_statement_generic, line 119
ExtractIncome ==
    /\ tpc = "income"
    /\ income_data' = ExtractIncomeStatementGeneric(tcontent)
    /\ tpc' = "balance"
    /\ UNCHANGED <<tcontent, file_info, period_info, balance_data, cash_flow_data,
                   financial_data, varsI, varsII, varsIV, varsV>>

\* parse_financial_statement_generic, line 120
ExtractBalance ==
    /\ tpc = "balance"
    /\ balance_data' = ExtractBalanceSheetGeneric(tcontent)
    /\ tpc' = "cash_flow"
    /\ UNCHANGED <<tcontent, file_info, period_info, income_data, cash_flow_data,
                   financial_data, varsI, varsII, varsIV, varsV>>

\* parse_financial_statement_generic, line 121
ExtractCashFlow ==
    /\ tpc = "cash_flow"
    /\ cash_flow_data' = ExtractCashFlowGeneric(tcontent)
    /\ tpc' = "prepare"
    /\ UNCHANGED <<tcontent, file_info, period_info, income_data, balance_data,
                   financial_data, varsI, varsII, varsIV, varsV>>

\* parse_financial_statement_generic, lines 124-130
PrepareData ==
    /\ tpc = "prepare"
    /\ financial_data' = PrepareDataForCsvGeneric(income_data, balance_data, cash_flow_data,
                                                  period_info, file_info.ticker)
    /\ tpc' = "return"
    /\ UNCHANGED <<tcontent, file_info, period_info, income_data, balance_data,
                   cash_flow_data, varsI, varsII, varsIV, varsV>>

NextIII == CalculatePeriod \/ ExtractIncome \/ ExtractBalance \/ ExtractCashFlow \/ PrepareData

\* the parse of one filing text, with the other programs idle
InitParse == IdleI /\ IdleII /\ InitIII /\ IdleIV /\ IdleV

SpecIII == InitParse /\ [][NextIII]_vars

(***************************************************************************)
(* Vocabulary of the properties of Part III                                *)
(***************************************************************************)
\* the fields an extractor reads from the text (not the derived ones)
ParsedFields(patterns) == {patterns[i].field : i \in DOMAIN patterns}

\* the amounts (in hundredths) of the literals that stand in the text right
\* after a label some pattern of the field matches
LiteralsOf(patterns, field) ==
    {ParseFloat(RemoveCommas(Capture(l.text).group)).v :
        l \in {x \in Range(tcontent) :
                 /\ Capture(x.text).ok
                 /\ ParseFloat(RemoveCommas(Capture(x.text).group)).ok
                 /\ \E i \in DOMAIN patterns :
                       /\ patterns[i].field = field
                       /\ \E j \in DOMAIN patterns[i].pattern_list :
                             IsSuffix(patterns[i].pattern_list[j], x.label)}}

\* v hundredths times 1,000,000 is v * 10,000 whole units
IsMillionTimes(amount, v) ==
    amount.cents = 0 /\ amount.whole % 10000 = 0 /\ amount.whole \div 10000 = v

IsUnchanged(amount, v) == amount.whole = v \div 100 /\ amount.cents = v % 100

StoredAsClaimed(data, patterns) ==
    \A field \in ParsedFields(patterns) :
        Has(data, field) =>
            \E v \in LiteralsOf(patterns, field) :
                IF 0 < v /\ v < 100000 THEN IsMillionTimes(data[field], v)
                ELSE IsUnchanged(data[field], v)

OnlyLine(text) == tcontent = << [label |-> <<"total", "revenue">>, text |-> text] >>

(***************************************************************************)
(* C10: every value a text extractor stores for a parsed literal v is      *)
(* v * 1,000,000 when 0 < v < 1000 and v otherwise; 1.5 is stored as       *)
(* 1,500,000, 1000 as 1000 and 1500 as 1500.                               *)
(***************************************************************************)
C10_ScaleNormalization ==
    /\ tpc \in {"balance", "cash_flow", "prepare", "return"} => StoredAsClaimed(income_data, IncomePatterns)
    /\ tpc \in {"cash_flow", "prepare", "return"} => StoredAsClaimed(balance_data, BalancePatterns)
    /\ tpc \in {"prepare", "return"} => StoredAsClaimed(cash_flow_data, CashFlowPatterns)
    /\ tpc = "prepare" =>
          /\ OnlyLine(<<" ", "1", ".", "5">>)
                => income_data["revenue"] = [whole |-> 1500000, cents |-> 0]
          /\ OnlyLine(<<" ", "1", "0", "0", "0">>)
                => income_data["revenue"] = [whole |-> 1000, cents |-> 0]
          /\ OnlyLine(<<" ", "1", "5", "0", "0">>)
                => income_data["revenue"] = [whole |-> 1500, cents |-> 0]

\* all three extractors have run on a text with a literal below 1000 and a
\* literal of 1000 or more, and both were stored
C10_Witness ==
    /\ tpc = "prepare"
    /\ \E f, g \in DOMAIN income_data \cup DOMAIN balance_data \cup DOMAIN cash_flow_data :
          LET all == [x \in {f, g} |->
                        IF Has(income_data, x) THEN income_data[x]
                        ELSE IF Has(balance_data, x) THEN balance_data[x]
                        ELSE cash_flow_data[x]]
          IN /\ all[f] = [whole |-> 1500000, cents |-> 0]
             /\ all[g] = [whole |-> 1000, cents |-> 0]

(***************************************************************************)
(* C11: a literal in parenthesized accounting notation is extracted as the *)
(* negative of the enclosed number in every strategy; for the free-text    *)
(* extraction: a text whose only line is a revenue label followed by       *)
(* "(1,234)" (or any parenthesized literal) yields revenue = -1234.        *)
(***************************************************************************)
\* the number enclosed by a parenthesized literal, in hundredths
Enclosed(text) ==
    ParseFloat(RemoveCommas(SubSeq(Strip(text), 2, Len(Strip(text)) - 1)))

\* a negative amount, sign on the whole part
NegativeAmount(v) == [whole |-> 0 - (v \div 100), cents |-> v % 100]

C11_ParenthesizedIsNegative ==
    \A text \in TTexts :
        (/\ tpc \notin {"period", "income"}
         /\ OnlyLine(text)
         /\ IsNegative(Strip(text))
         /\ Enclosed(text).ok)
            => /\ Has(income_data, "revenue")
               /\ income_data["revenue"] = NegativeAmount(Enclosed(text).v)

(***************************************************************************)
(* C12: a pattern whose matched text does not parse is skipped without an  *)
(* error and the next pattern of the field is tried; the field gets the    *)
(* value of the first pattern of its list whose matched text parses, and   *)
(* is absent when no pattern of the list matches and parses.               *)
(***************************************************************************)
\* the text float() is given for a pattern: the last match, commas removed
MatchedText(pattern) ==
    LET matches == FindAllText(pattern, tcontent)
    IN RemoveCommas(matches[Len(matches)])

Parses(pattern) ==
    FindAllText(pattern, tcontent) # <<>> /\ ParseFloat(MatchedText(pattern)).ok

SkipsToNextPattern(data, patterns) ==
    \A k \in DOMAIN patterns :
        LET field == patterns[k].field
            pattern_list == patterns[k].pattern_list
            good == {j \in DOMAIN pattern_list : Parses(pattern_list[j])}
        IN /\ Has(data, field) <=> good # {}
           /\ good # {} =>
                 LET first == CHOOSE j \in good : \A g \in good : j <= g
                 IN data[field] = ScaleValue(ParseFloat(MatchedText(pattern_list[first])).v)

C12_UnparsableAliasSkipped ==
    /\ tpc \in {"balance", "cash_flow", "prepare", "return"} => SkipsToNextPattern(income_data, IncomePatterns)
    /\ tpc \in {"cash_flow", "prepare", "return"} => SkipsToNextPattern(balance_data, BalancePatterns)
    /\ tpc \in {"prepare", "return"} => SkipsToNextPattern(cash_flow_data, CashFlowPatterns)

\* the first revenue pattern matches a text that does not parse, the second
\* one parses and gives the value; and a field none of whose patterns parses
C12_Witness ==
    /\ tpc = "prepare"
    /\ FindAllText(<<"total", "revenue">>, tcontent) # <<>>
    /\ ~Parses(<<"total", "revenue">>)
    /\ Parses(<<"revenue">>)
    /\ Has(income_data, "revenue")

\* the same for the tag search: a match that does not parse is passed over,
\* a metric has a data point exactly for its aliases with a valid match
C12_DirectSearchSkips ==
    xpc = "extracted" =>
        \A metric \in DOMAIN FINANCIAL_TAGS :
            Len(PointsOf(metric)) = Cardinality(MatchingAliases(metric))

(***************************************************************************)
(* C13: a metric no extractor returned is absent from the record           *)
(* prepare_data_for_csv_generic builds: the record holds no zero and no    *)
(* other number for it.                                                    *)
(***************************************************************************)
\* the keys of the record read from one extracted field, with no fallback
RecordSources ==
    { [key |-> "revenue", from |-> "income", field |-> "revenue"],
      [key |-> "net_income", from |-> "income", field |-> "net_income"],
      [key |-> "cogs", from |-> "income", field |-> "cost_of_revenue"],
      [key |-> "operating_income", from |-> "income", field |-> "operating_income"],
      [key |-> "total_assets", from |-> "balance", field |-> "total_assets"],
      [key |-> "total_liabilities", from |-> "balance", field |-> "total_liabilities"],
      [key |-> "total_debt", from |-> "balance", field |-> "total_debt"],
      [key |-> "operating_cash_flow", from |-> "cash", field |-> "operating_cash_flow"] }

Extracted(from) ==
    IF from = "income" THEN income_data
    ELSE IF from = "balance" THEN balance_data
    ELSE cash_flow_data

C13_AbsentStaysAbsent ==
    tpc = "return" =>
        \A m \in RecordSources :
            ~Has(Extracted(m.from), m.field) => m.key \notin DOMAIN financial_data

(***************************************************************************)
(* C14: gross_profit_calculated is in the income-statement result exactly  *)
(* when revenue and cost_of_revenue were extracted and gross_profit was    *)
(* not; it equals revenue - cost_of_revenue; and the record keeps a        *)
(* directly reported gross_profit.                                         *)
(***************************************************************************)
C14_GrossProfitCalculated ==
    /\ tpc \in {"balance", "cash_flow", "prepare", "return"} =>
          /\ Has(income_data, "gross_profit_calculated")
                <=> /\ Has(income_data, "revenue")
                    /\ Has(income_data, "cost_of_revenue")
                    /\ ~Has(income_data, "gross_profit")
          /\ Has(income_data, "gross_profit_calculated") =>
                income_data["gross_profit_calculated"]
                    = MinusAmount(income_data["revenue"], income_data["cost_of_revenue"])
    /\ (tpc = "return" /\ Has(income_data, "gross_profit")) =>
          financial_data.gross_profit = income_data["gross_profit"]

(***************************************************************************)
(* C15: a 10-K is classified as Q4 of the calendar year of its filing      *)
(* date, whatever the month; a 10-Q is classified by the month of its      *)
(* filing date (1-3 Q1, 4-6 Q2, 7-9 Q3, 10-12 Q4).                         *)
(***************************************************************************)
QuarterOfMonth(month) ==
    IF month <= 3 THEN "Q1" ELSE IF month <= 6 THEN "Q2" ELSE IF month <= 9 THEN "Q3" ELSE "Q4"

C15_AnnualFilingIsQ4 ==
    tpc \in {"income", "balance", "cash_flow", "prepare", "return"} =>
        /\ period_info.fiscal_year = file_info.filing_date.year
        /\ file_info.file_type = "10-K" => period_info.fiscal_quarter = "Q4"
        /\ file_info.file_type = "10-Q" =>
              period_info.fiscal_quarter = QuarterOfMonth(file_info.filing_date.month)

(***************************************************************************)
(* Part IV: FinancialDataImporter.calculate_financial_ratios               *)
(* (Quant/Aquisicao/Data_to_db.py).  A ratio is the fraction n/d of two    *)
(* integers, the float the code computes up to rounding.                   *)
(***************************************************************************)
ZeroRatio == [n |-> 0, d |-> 1]

\* a NULL of a REAL column of financial_statements (None in Python); the
\* amounts of the records are not negative
NULL == 0 - 1

\* the truthiness of a fetched value: None and 0 are falsy
IsTruthy(x) == x # 0 /\ x # NULL

\* the ratio without the test of its denominator
DivUnguarded(a, b) == [n |-> a, d |-> b]

\* a ratio guarded by the truthiness of its denominator: a / b if b else 0
DivOrZero(a, b) == IF IsTruthy(b) THEN [n |-> a, d |-> b] ELSE ZeroRatio

\* (a / b * 100) if b else 0
PctOrZero(a, b) == IF IsTruthy(b) THEN [n |-> 100 * a, d |-> b] ELSE ZeroRatio

\* lines 581-586: the values read from the balance sheet JSON, with defaults
BalanceValues(b) ==
    [current_assets |-> Get(b, "CurrentAssets", Get(b, "TotalCurrentAssets", 0)),
     current_liabilities |->
         Get(b, "CurrentLiabilities", Get(b, "TotalCurrentLiabilities", 0)),
     cash |-> Get(b, "CashAndCashEquivalents", 0),
     inventory |-> Get(b, "Inventory", 0),
     receivables |-> Get(b, "AccountsReceivable", Get(b, "AccountsReceivableNet", 0)),
     total_equity |-> Get(b, "TotalEquity", Get(b, "StockholdersEquity", 0))]

\* lines 589-623: the dict ratios of a row and its balance sheet values
RatiosOf(row, b) ==
    [ticker |-> row.ticker, year |-> row.year, quarter |-> row.quarter,
     current_ratio |-> DivOrZero(b.current_assets, b.current_liabilities),
     quick_ratio |-> DivOrZero(b.current_assets - b.inventory, b.current_liabilities),
     cash_ratio |-> DivOrZero(b.cash, b.current_liabilities),
     debt_to_equity |-> DivOrZero(row.total_debt, b.total_equity),
     debt_to_assets |-> DivOrZero(row.total_debt, row.total_assets),
     equity_multiplier |-> DivOrZero(row.total_assets, b.total_equity),
     roe |-> DivOrZero(row.net_income, b.total_equity),
     roa |-> DivOrZero(row.net_income, row.total_assets),
     return_on_tangible_equity |-> DivOrZero(row.net_income, b.total_equity),
     gross_margin |-> PctOrZero(row.gross_profit, row.revenue),
     operating_margin |-> PctOrZero(row.net_income, row.revenue),
     net_margin |-> PctOrZero(row.net_income, row.revenue),
     asset_turnover |-> DivOrZero(row.revenue, row.total_assets),
     inventory_turnover |-> DivOrZero(row.revenue, b.inventory),
     receivables_turnover |-> DivOrZero(row.revenue, b.receivables),
     operating_cash_flow_ratio |-> DivOrZero(row.operating_cash_flow, b.current_liabilities),
     free_cash_flow_margin |-> PctOrZero(row.free_cash_flow, row.revenue),
     working_capital |-> b.current_assets - b.current_liabilities,
     net_debt |-> row.total_debt - b.cash]

\* 'a / b if b else 0' with a = None and a truthy b: None / number raises
\* TypeError
DivisionRaises(a, b) == a = NULL /\ IsTruthy(b)

\* whether building the dict ratios (lines 589-623) raises TypeError
RatiosRaise(row, b) ==
    \/ DivisionRaises(row.total_debt, b.total_equity)
    \/ DivisionRaises(row.total_debt, row.total_assets)
    \/ DivisionRaises(row.total_assets, b.total_equity)
    \/ DivisionRaises(row.net_income, b.total_equity)
    \/ DivisionRaises(row.net_income, row.total_assets)
    \/ DivisionRaises(row.gross_profit, row.revenue)
    \/ DivisionRaises(row.net_income, row.revenue)
    \/ DivisionRaises(row.revenue, row.total_assets)
    \/ DivisionRaises(row.revenue, b.inventory)
    \/ DivisionRaises(row.revenue, b.receivables)
    \/ DivisionRaises(row.operating_cash_flow, b.current_liabilities)
    \/ DivisionRaises(row.free_cash_flow, row.revenue)
    \/ row.total_debt = NULL

\* INSERT OR REPLACE INTO ratios, UNIQUE(ticker, year, quarter)
InsertOrReplace(table, r) ==
    LET Other(x) == <<x.ticker, x.year, x.quarter>> # <<r.ticker, r.year, r.quarter>>
    IN SelectSeq(table, Other) \o <<r>>

\* Rows of financial_statements of MSFT, one per quarter; ebitda holds the
\* operating income of the record
MaxRows == 2

RowQuarters == <<"Q1", "Q2", "Q3", "Q4">>

FinancialRow(quarter, total_assets, revenue) ==
    [ticker |-> "MSFT", year |-> 2024, quarter |-> quarter,
     total_assets |-> total_assets, total_liabilities |-> 90, total_debt |-> 50,
     revenue |-> revenue, gross_profit |-> 40, ebitda |-> 30, net_income |-> 10,
     operating_cash_flow |-> 35, free_cash_flow |-> 20]

\* the rows the SELECT returns: n rows, each with zero or nonzero total
\* assets and revenue
FinancialRows(n) ==
    {[i \in 1..n |-> FinancialRow(RowQuarters[i], c[i][1], c[i][2])] :
        c \in [1..n -> {0, 200} \X {0, 100}]}

\* the metrics of a row that calculate_financial_ratios reads
RatioMetrics ==
    {"total_assets", "total_debt", "revenue", "gross_profit", "net_income",
     "operating_cash_flow"}

\* rows of which some have one NULL metric
RowsWithNull(n) ==
    {[i \in 1..n |->
         IF m[i] = "none" THEN FinancialRow(RowQuarters[i], 200, 100)
         ELSE [FinancialRow(RowQuarters[i], 200, 100) EXCEPT ![m[i]] = NULL]] :
        m \in [1..n -> RatioMetrics \cup {"none"}]}

\* a balance sheet JSON under the first or the second key names
BalanceJson(names, current_liabilities, total_equity, inventory) ==
    IF names = 1
    THEN [CurrentAssets |-> 120, CurrentLiabilities |-> current_liabilities,
          CashAndCashEquivalents |-> 30, Inventory |-> inventory,
          AccountsReceivable |-> inventory, TotalEquity |-> total_equity]
    ELSE [TotalCurrentAssets |-> 120, TotalCurrentLiabilities |-> current_liabilities,
          CashAndCashEquivalents |-> 30, Inventory |-> inventory,
          AccountsReceivableNet |-> inventory, StockholdersEquity |-> total_equity]

\* what fetchone() can give for a row: nothing, or one JSON document
BalanceResults ==
    { <<>>, << EmptyDict >> } \cup
    { << BalanceJson(names, cl, eq, inv) >> :
        names \in {1, 2}, cl \in {0, 80}, eq \in {0, 150}, inv \in {0, 25} }

\* the first row with any balance sheet, the others with a plain one or
\* none; or rows with NULL metrics, each with a plain balance sheet, one
\* without any entry, or none
InitIV ==
    /\ \E n \in 1..MaxRows :
          \/ /\ fin_rows \in FinancialRows(n)
             /\ balance_sheets \in
                   {bs \in [{RowQuarters[i] : i \in 1..n} -> BalanceResults] :
                       \A i \in 2..n : bs[RowQuarters[i]] \in
                           { <<>>, << BalanceJson(1, 80, 150, 25) >> }}
          \/ /\ fin_rows \in RowsWithNull(n)
             /\ balance_sheets \in
                   [{RowQuarters[i] : i \in 1..n} ->
                       { <<>>, << EmptyDict >>, << BalanceJson(1, 80, 150, 25) >> }]
    /\ row_idx = 1
    /\ ratios = <<>>
    /\ rpc = "rows"

\* 'for row in financial_data' for a row whose balance sheet exists:
\* lines 564-633
RatiosForRow ==
    /\ rpc = "rows"
    /\ row_idx <= Len(fin_rows)
    /\ balance_sheets[fin_rows[row_idx].quarter] # <<>>
    /\ ~RatiosRaise(fin_rows[row_idx],
                    BalanceValues(balance_sheets[fin_rows[row_idx].quarter][1]))
    /\ ratios' = InsertOrReplace(ratios,
                    RatiosOf(fin_rows[row_idx],
                             BalanceValues(balance_sheets[fin_rows[row_idx].quarter][1])))
    /\ row_idx' = row_idx + 1
    /\ UNCHANGED <<fin_rows, balance_sheets, rpc, varsI, varsII, varsIII, varsV>>

\* lines 575-576: 'if not balance_result: continue'
SkipRow ==
    /\ rpc = "rows"
    /\ row_idx <= Len(fin_rows)
    /\ balance_sheets[fin_rows[row_idx].quarter] = <<>>
    /\ row_idx' = row_idx + 1
    /\ UNCHANGED <<fin_rows, balance_sheets, ratios, rpc, varsI, varsII, varsIII, varsV>>

\* lines 635-637: self.conn.commit(); return True
CommitRatios ==
    /\ rpc = "rows"
    /\ row_idx > Len(fin_rows)
    /\ rpc' = "committed"
    /\ UNCHANGED <<fin_rows, row_idx, balance_sheets, ratios, varsI, varsII, varsIII, varsV>>

\* lines 639-641: the TypeError of a row is caught outside the loop: the
\* remaining rows are not processed, nothing is committed, return False
ReturnFalseOnError ==
    /\ rpc = "rows"
    /\ row_idx <= Len(fin_rows)
    /\ balance_sheets[fin_rows[row_idx].quarter] # <<>>
    /\ RatiosRaise(fin_rows[row_idx],
                   BalanceValues(balance_sheets[fin_rows[row_idx].quarter][1]))
    /\ rpc' = "failed"
    /\ UNCHANGED <<fin_rows, row_idx, balance_sheets, ratios, varsI, varsII, varsIII, varsV>>

\* run_complete_import, lines 750-760: verify_import and close(); closing
\* the connection discards the inserts that were not committed (create_tables
\* left the table ratios empty at the start of the run)
CloseImporter ==
    /\ rpc \in {"committed", "failed"}
    /\ ratios' = IF rpc = "committed" THEN ratios ELSE <<>>
    /\ rpc' = "closed"
    /\ UNCHANGED <<fin_rows, row_idx, balance_sheets, varsI, varsII, varsIII, varsV>>

NextIV == RatiosForRow \/ SkipRow \/ CommitRatios \/ ReturnFalseOnError \/ CloseImporter

\* the ratio computation of the importer, with the other programs idle
InitRatios == IdleI /\ IdleII /\ IdleIII /\ InitIV /\ IdleV

SpecIV == InitRatios /\ [][NextIV]_vars

(***************************************************************************)
(* Part V: the income ratios and calculate_and_save_ratios of              *)
(* Quant/Aquisicao/get_data.py                                             *)
(***************************************************************************)
\* (a / revenue * 100) if revenue > 0 else 0
PctIfPositive(a, revenue) ==
    IF revenue > 0 THEN [n |-> 100 * a, d |-> revenue] ELSE ZeroRatio

\* item assignments and dict.update: the items of e replace those of d
Update(d, e) ==
    [k \in DOMAIN d \cup DOMAIN e |-> IF k \in DOMAIN e THEN e[k] ELSE d[k]]

\* lines 537-541: the five margins
Margins(income, revenue) ==
    [gross_profit_margin |-> PctIfPositive(Get(income, "gross_profit", 0), revenue),
     operating_profit_margin |-> PctIfPositive(Get(income, "operating_income", 0), revenue),
     net_profit_margin |-> PctIfPositive(Get(income, "net_income", 0), revenue),
     rd_percent_revenue |-> PctIfPositive(Get(income, "rd_expense", 0), revenue),
     sga_percent_revenue |-> PctIfPositive(Get(income, "sga_expense", 0), revenue)]

\* lines 544-548: previous_year_data is None (<<>>) or a dict
RevenueGrowth(revenue, previous) ==
    IF previous # <<>> /\ Get(previous[1], "revenue", 0) > 0
    THEN [revenue_growth |->
            [n |-> 100 * (revenue - previous[1]["revenue"]), d |-> previous[1]["revenue"]]]
    ELSE [revenue_growth |-> ZeroRatio]

\* calculate_financial_ratios: the content of the dict income_data when the
\* function returns it (the function returns the object it was given)
CalculateFinancialRatios(income, previous) ==
    IF Get(income, "revenue", 0) = 0 THEN income
    ELSE Update(Update(income, Margins(income, Get(income, "revenue", 0))),
                RevenueGrowth(Get(income, "revenue", 0), previous))

\* yf_col.lower() in col.lower(), for the row labels of the model
LabelContains(col, yf_col) ==
    col = yf_col \/ <<col, yf_col>> \in {<<"Net Income Common Stockholders", "Net Income">>}

\* lines 597-605: the cell of a mapped row in the column of a year, 0 when
\* no row label contains the name
LookUp(stmt, yf_col, k) ==
    LET Possible(col) == LabelContains(col, yf_col)
    IN IF \E j \in DOMAIN stmt.index : stmt.index[j] = yf_col
       THEN stmt.columns[k].cells[yf_col]
       ELSE IF SelectSeq(stmt.index, Possible) # <<>>
       THEN stmt.columns[k].cells[SelectSeq(stmt.index, Possible)[1]]
       ELSE 0

\* lines 578-609: year_data before the ratios
YearData(stmt, k, ticker_symbol) ==
    [ticker |-> ticker_symbol,
     year |-> stmt.columns[k].year,
     revenue |-> LookUp(stmt, "Total Revenue", k),
     cogs |-> LookUp(stmt, "Cost Of Revenue", k),
     gross_profit |-> LookUp(stmt, "Gross Profit", k),
     sga_expense |-> LookUp(stmt, "Selling General And Administration", k),
     rd_expense |-> LookUp(stmt, "Research And Development", k),
     operating_income |-> LookUp(stmt, "Operating Income", k),
     other_income |-> LookUp(stmt, "Other Income Expense", k),
     pretax_income |-> LookUp(stmt, "Pretax Income", k),
     income_taxes |-> LookUp(stmt, "Tax Provision", k),
     net_income |-> LookUp(stmt, "Net Income", k),
     operating_expenses |-> LookUp(stmt, "Selling General And Administration", k)
                               + LookUp(stmt, "Research And Development", k)]

\* lines 979-989: the values read from the balance sheet JSON, with defaults
GBalanceValues(b) ==
    [current_assets |-> Get(b, "Current Assets", 0),
     current_liabilities |-> Get(b, "Current Liabilities", 0),
     cash |-> Get(b, "Cash And Cash Equivalents", 0),
     inventory |-> Get(b, "Inventory", 0),
     receivables |-> Get(b, "Receivables", 0),
     total_assets |-> Get(b, "Total Assets", 0),
     total_equity |-> Get(b, "Total Equity Gross Minority Interest", 0),
     tangible_book_value |->
         Get(b, "Tangible Book Value", Get(b, "Total Equity Gross Minority Interest", 0)),
     total_debt |-> Get(b, "Total Debt", 0),
     working_capital |-> Get(b, "Working Capital", 0),
     net_debt |-> Get(b, "Net Debt", 0)]

\* lines 992-1025: the dict ratios of calculate_and_save_ratios
GRatiosOf(ticker, year, row, b) ==
    [ticker |-> ticker, year |-> year,
     current_ratio |-> DivOrZero(b.current_assets, b.current_liabilities),
     quick_ratio |-> DivOrZero(b.current_assets - b.inventory, b.current_liabilities),
     cash_ratio |-> DivOrZero(b.cash, b.current_liabilities),
     debt_to_equity |-> DivOrZero(b.total_debt, b.total_equity),
     debt_to_assets |-> DivOrZero(b.total_debt, b.total_assets),
     equity_multiplier |-> DivOrZero(b.total_assets, b.total_equity),
     roe |-> DivOrZero(row.net_income, b.total_equity),
     roa |-> DivOrZero(row.net_income, b.total_assets),
     return_on_tangible_equity |-> DivOrZero(row.net_income, b.tangible_book_value),
     gross_margin |-> PctOrZero(row.gross_profit, row.revenue),
     operating_margin |-> PctOrZero(row.ebitda, row.revenue),
     net_margin |-> PctOrZero(row.net_income, row.revenue),
     asset_turnover |-> DivOrZero(row.revenue, b.total_assets),
     inventory_turnover |-> DivOrZero(row.revenue, b.inventory),
     receivables_turnover |-> DivOrZero(row.revenue, b.receivables),
     operating_cash_flow_ratio |-> DivOrZero(row.operating_cash_flow, b.current_liabilities),
     free_cash_flow_margin |-> PctOrZero(row.free_cash_flow, row.revenue),
     working_capital |-> b.working_capital,
     net_debt |-> b.net_debt]

\* INSERT OR REPLACE INTO ratios, UNIQUE(ticker, year)
InsertOrReplaceYear(table, r) ==
    LET Other(x) == <<x.ticker, x.year>> # <<r.ticker, r.year>>
    IN SelectSeq(table, Other) \o <<r>>

\* Income statements of yfinance: the row labels and up to MaxStmtYears year
\* columns, most recent year first
MaxStmtYears == 2

StmtIndexes ==
    { << "Total Revenue", "Cost Of Revenue", "Gross Profit",
         "Selling General And Administration", "Research And Development",
         "Operating Income", "Other Income Expense", "Pretax Income", "Tax Provision",
         "Net Income" >>,
      << "Total Revenue", "Gross Profit", "Operating Income",
         "Net Income Common Stockholders" >> }

CellOf(label) ==
    CASE label = "Cost Of Revenue" -> 60
      [] label = "Gross Profit" -> 40
      [] label = "Selling General And Administration" -> 12
      [] label = "Research And Development" -> 8
      [] label = "Operating Income" -> 30
      [] label = "Other Income Expense" -> 1
      [] label = "Pretax Income" -> 14
      [] label = "Tax Provision" -> 4
      [] OTHER -> 10

StmtColumn(index, year, revenue) ==
    [year |-> year,
     cells |-> [l \in Range(index) |-> IF l = "Total Revenue" THEN revenue ELSE CellOf(l)]]

IncomeStmts(n) ==
    {[index |-> index, columns |-> [k \in 1..n |-> StmtColumn(index, 2025 - k, rev[k])]] :
        index \in StmtIndexes, rev \in [1..n -> {-100, 0, 100, 200}]}

\* the balance sheet JSON of a year, with or without the keys
\* 'Working Capital' and 'Net Debt'
GBalanceJson(current_liabilities, total_assets, working_capital) ==
    LET base == ("Current Assets" :> 120) @@ ("Current Liabilities" :> current_liabilities)
                @@ ("Cash And Cash Equivalents" :> 30) @@ ("Inventory" :> 25)
                @@ ("Receivables" :> 25) @@ ("Total Assets" :> total_assets)
                @@ ("Total Equity Gross Minority Interest" :> 150) @@ ("Total Debt" :> 50)
    IN IF working_capital = <<>> THEN base
       ELSE ("Working Capital" :> working_capital[1]) @@ ("Net Debt" :> 20) @@ base

GBalanceResults ==
    { <<>> } \cup
    { << GBalanceJson(cl, ta, wc) >> :
        cl \in {0, 80}, ta \in {0, 200}, wc \in { <<>>, <<40>>, <<35>> } }

GFinancialResults ==
    { <<>> } \cup
    { << [revenue |-> revenue, gross_profit |-> 40, ebitda |-> 30, net_income |-> 10,
          operating_cash_flow |-> 35, free_cash_flow |-> 20] >> : revenue \in {0, 100} }

\* every income statement with one database content, and every database
\* content with one income statement
InitV ==
    /\ \/ /\ \E n \in 1..MaxStmtYears : income_stmt \in IncomeStmts(n)
          /\ g_balance = << GBalanceJson(80, 200, <<40>>) >>
          /\ g_financial \in {f \in GFinancialResults : f # <<>> /\ f[1].revenue = 100}
       \/ /\ income_stmt \in {st \in IncomeStmts(1) : st.columns[1].cells["Total Revenue"] = 100}
          /\ g_balance \in GBalanceResults
          /\ g_financial \in GFinancialResults
    /\ year_idx = 1
    /\ income_arg = EmptyDict
    /\ g_year_data = EmptyDict
    /\ previous_year_data = <<>>
    /\ income_data_list = <<>>
    /\ g_ratios = <<>>
    /\ gpc = "build"
    /\ force_refresh = FALSE
    /\ utc_offset = 0
    /\ tickers_requested = <<>>
    /\ tickers_to_process = <<>>
    /\ ticker_idx = 0
    /\ yahoo = <<>>
    /\ all_financial_data = <<>>
    /\ all_income_statements = <<>>
    /\ processing_log = <<>>
    /\ financial_statements = <<>>
    /\ income_statements = <<>>
    /\ runs = 0
    /\ run_pc = "idle"

\* extract_detailed_income_data, lines 578-609: year_data is built
BuildYearData ==
    /\ gpc = "build"
    /\ year_idx <= Len(income_stmt.columns)
    /\ income_arg' = YearData(income_stmt, year_idx, "AAPL")
    /\ g_year_data' = income_arg'
    /\ gpc' = "ratios"
    /\ UNCHANGED <<income_stmt, year_idx, previous_year_data, income_data_list,
                   g_balance, g_financial, g_ratios, varsRun,
                   varsI, varsII, varsIII, varsIV>>

\* line 613: year_data = calculate_financial_ratios(year_data, previous_year_data);
\* the function writes into the dict it was given and returns that dict
CalculateRatios ==
    /\ gpc = "ratios"
    /\ income_arg' = CalculateFinancialRatios(income_arg, previous_year_data)
    /\ g_year_data' = income_arg'
    /\ gpc' = "append"
    /\ UNCHANGED <<income_stmt, year_idx, previous_year_data, income_data_list,
                   g_balance, g_financial, g_ratios, varsRun,
                   varsI, varsII, varsIII, varsIV>>

\* lines 620-621: the record is appended and copied as the previous one
AppendYear ==
    /\ gpc = "append"
    /\ income_data_list' = Append(income_data_list, g_year_data)
    /\ previous_year_data' = <<g_year_data>>
    /\ year_idx' = year_idx + 1
    /\ gpc' = "build"
    /\ UNCHANGED <<income_stmt, income_arg, g_year_data, g_balance, g_financial,
                   g_ratios, varsRun,
                   varsI, varsII, varsIII, varsIV>>

\* line 627: return income_data_list; the run goes on to the ratios
ReturnIncomeDataList ==
    /\ gpc = "build"
    /\ year_idx > Len(income_stmt.columns)
    /\ gpc' = "save_ratios"
    /\ UNCHANGED <<income_stmt, year_idx, income_arg, g_year_data, previous_year_data,
                   income_data_list, g_balance, g_financial, g_ratios,
                   varsRun,
                   varsI, varsII, varsIII, varsIV>>

\* calculate_and_save_ratios, lines 954-970: no balance sheet or no
\* financial_statements row of the year; return False
NoDataForRatios ==
    /\ gpc = "save_ratios"
    /\ g_balance = <<>> \/ g_financial = <<>>
    /\ gpc' = "returned_false"
    /\ UNCHANGED <<income_stmt, year_idx, income_arg, g_year_data, previous_year_data,
                   income_data_list, g_balance, g_financial, g_ratios,
                   varsRun,
                   varsI, varsII, varsIII, varsIV>>

\* calculate_and_save_ratios, lines 972-1041: the ratios are computed and saved
CalculateAndSaveRatios ==
    /\ gpc = "save_ratios"
    /\ g_balance # <<>>
    /\ g_financial # <<>>
    /\ g_ratios' = InsertOrReplaceYear(g_ratios,
                      GRatiosOf("AAPL", 2024, g_financial[1], GBalanceValues(g_balance[1])))
    /\ gpc' = "returned_true"
    /\ UNCHANGED <<income_stmt, year_idx, income_arg, g_year_data, previous_year_data,
                   income_data_list, g_balance, g_financial, varsRun,
                   varsI, varsII, varsIII, varsIV>>

NextV ==
    \/ BuildYearData \/ CalculateRatios \/ AppendYear \/ ReturnIncomeDataList
    \/ NoDataForRatios \/ CalculateAndSaveRatios

\* one ticker of a get_data run, with the other programs idle
InitGetData == IdleI /\ IdleII /\ IdleIII /\ IdleIV /\ InitV

SpecV == InitGetData /\ [][NextV]_vars

(***************************************************************************)
(* Vocabulary of the properties of Part IV                                 *)
(***************************************************************************)
\* the rows of financial_statements already processed that have a balance sheet
ProcessedRows ==
    {i \in 1..(row_idx - 1) : balance_sheets[fin_rows[i].quarter] # <<>>}

\* the stored ratios of a processed row
StoredRatios(i) ==
    CHOOSE r \in Range(ratios) : r.quarter = fin_rows[i].quarter

BalanceOfRow(i) == BalanceValues(balance_sheets[fin_rows[i].quarter][1])

IsExactlyZero(ratio) == ratio.n = 0 /\ ratio.d = 1

\* equality of two fractions with nonzero denominators
SameRatio(x, y) == x.d # 0 /\ y.d # 0 /\ x.n * y.d = y.n * x.d

(***************************************************************************)
(* C16: every processed record gets its ratios stored (no error), and each *)
(* ratio whose denominator is zero is stored as exactly 0:                 *)
(* current_liabilities = 0 gives current_ratio = 0, and likewise for the   *)
(* ratios over total_equity, total_assets, revenue, inventory and          *)
(* receivables.                                                            *)
(***************************************************************************)
C16_ZeroDenominatorGivesZero ==
    rpc \in {"rows", "committed"} =>
        \A i \in ProcessedRows :
            /\ \E r \in Range(ratios) : r.quarter = fin_rows[i].quarter
            /\ LET r == StoredRatios(i)
                   b == BalanceOfRow(i)
                   row == fin_rows[i]
               IN /\ b.current_liabilities = 0 =>
                        /\ IsExactlyZero(r.current_ratio)
                        /\ IsExactlyZero(r.quick_ratio)
                        /\ IsExactlyZero(r.cash_ratio)
                        /\ IsExactlyZero(r.operating_cash_flow_ratio)
                  /\ b.total_equity = 0 =>
                        /\ IsExactlyZero(r.debt_to_equity)
                        /\ IsExactlyZero(r.equity_multiplier)
                        /\ IsExactlyZero(r.roe)
                  /\ row.total_assets = 0 =>
                        /\ IsExactlyZero(r.debt_to_assets)
                        /\ IsExactlyZero(r.roa)
                        /\ IsExactlyZero(r.asset_turnover)
                  /\ row.revenue = 0 =>
                        /\ IsExactlyZero(r.gross_margin)
                        /\ IsExactlyZero(r.operating_margin)
                        /\ IsExactlyZero(r.net_margin)
                        /\ IsExactlyZero(r.free_cash_flow_margin)
                  /\ b.inventory = 0 => IsExactlyZero(r.inventory_turnover)
                  /\ b.receivables = 0 => IsExactlyZero(r.receivables_turnover)

\* the ratios of a record with current_liabilities = 0 and revenue = 0 and
\* of a record with nonzero denominators were committed
C16_Witness ==
    /\ rpc = "committed"
    /\ \E i \in ProcessedRows :
          BalanceOfRow(i).current_liabilities = 0 /\ fin_rows[i].revenue = 0
    /\ \E i \in ProcessedRows :
          /\ BalanceOfRow(i).current_liabilities # 0
          /\ ~IsExactlyZero(StoredRatios(i).current_ratio)

(***************************************************************************)
(* C17: for every record with nonzero revenue, gross_margin is             *)
(* gross_profit / revenue * 100, operating_margin is the operating income  *)
(* (column ebitda) / revenue * 100 and net_margin is                       *)
(* net_income / revenue * 100.                                             *)
(***************************************************************************)
C17_MarginsUseOwnIncomeLine ==
    rpc \in {"rows", "committed"} =>
        \A i \in ProcessedRows :
            fin_rows[i].revenue # 0 =>
                LET r == StoredRatios(i)
                    row == fin_rows[i]
                IN /\ SameRatio(r.gross_margin, [n |-> 100 * row.gross_profit, d |-> row.revenue])
                   /\ SameRatio(r.operating_margin, [n |-> 100 * row.ebitda, d |-> row.revenue])
                   /\ SameRatio(r.net_margin, [n |-> 100 * row.net_income, d |-> row.revenue])

\* the same for calculate_and_save_ratios of get_data.py
C16_GetDataZeroDenominator ==
    gpc = "returned_true" =>
        /\ Len(g_ratios) = 1
        /\ LET r == g_ratios[1]
               b == GBalanceValues(g_balance[1])
               row == g_financial[1]
           IN /\ b.current_liabilities = 0 =>
                    /\ IsExactlyZero(r.current_ratio)
                    /\ IsExactlyZero(r.quick_ratio)
                    /\ IsExactlyZero(r.cash_ratio)
                    /\ IsExactlyZero(r.operating_cash_flow_ratio)
              /\ b.total_assets = 0 =>
                    /\ IsExactlyZero(r.debt_to_assets)
                    /\ IsExactlyZero(r.roa)
                    /\ IsExactlyZero(r.asset_turnover)
              /\ row.revenue = 0 =>
                    /\ IsExactlyZero(r.gross_margin)
                    /\ IsExactlyZero(r.operating_margin)
                    /\ IsExactlyZero(r.net_margin)
                    /\ IsExactlyZero(r.free_cash_flow_margin)

(***************************************************************************)
(* C18: in every ratio set produced, working_capital is                    *)
(* current_assets - current_liabilities and net_debt is total_debt - cash, *)
(* from the values of the record that feed the other ratios.               *)
(***************************************************************************)
C18_WorkingCapitalAndNetDebt ==
    /\ rpc \in {"rows", "committed"} =>
          \A i \in ProcessedRows :
              /\ StoredRatios(i).working_capital
                    = BalanceOfRow(i).current_assets - BalanceOfRow(i).current_liabilities
              /\ StoredRatios(i).net_debt = fin_rows[i].total_debt - BalanceOfRow(i).cash
    /\ gpc = "returned_true" =>
          LET b == GBalanceValues(g_balance[1])
          IN /\ g_ratios[1].working_capital = b.current_assets - b.current_liabilities
             /\ g_ratios[1].net_debt = b.total_debt - b.cash

(***************************************************************************)
(* C19: the result of the income-ratio computation contains                *)
(* revenue_growth; it is (revenue - prior_revenue) / prior_revenue * 100   *)
(* when there is a prior record with a nonzero revenue, and 0 otherwise    *)
(* (also when the current revenue is 0 or there is no prior record).       *)
(***************************************************************************)
C19_RevenueGrowth ==
    gpc = "append" =>
        /\ Has(g_year_data, "revenue_growth")
        /\ IF previous_year_data # <<>> /\ previous_year_data[1]["revenue"] # 0
           THEN SameRatio(g_year_data["revenue_growth"],
                          [n |-> 100 * (g_year_data["revenue"]
                                          - previous_year_data[1]["revenue"]),
                           d |-> previous_year_data[1]["revenue"]])
           ELSE g_year_data["revenue_growth"].n = 0

(***************************************************************************)
(* C20: the ratio computation is a pure function: the call leaves the      *)
(* record it is given and the prior-period record unchanged.               *)
(***************************************************************************)
C20_RatioComputationIsPure ==
    [][gpc = "ratios" =>
          /\ income_arg' = income_arg
          /\ previous_year_data' = previous_year_data]_vars

(***************************************************************************)
(* C21: for every fact collection of an entity, facts without a filed      *)
(* date, a value or a fiscal period included, no exception escapes         *)
(* process_company, and a run that has ended has processed every entity of *)
(* the batch.                                                              *)
(***************************************************************************)
RunEnded == pc \in {"done", "TypeError"}

C21_NoExceptionEndsTheBatch ==
    /\ pc # "TypeError"
    /\ RunEnded => ciks = <<>>

(***************************************************************************)
(* Part I, parallel callers.  process_company keeps all its state in       *)
(* locals and shares only the connection; a caller may run one call per    *)
(* CIK side by side.  Each call is modelled by the rows it still has to    *)
(* insert; the calls interleave at every insert_data.                      *)
(***************************************************************************)
Workers == 1..MaxCiks

RECURSIVE RowsUntilRaise(_, _, _)
\* the rows process_company inserts, metric by metric, up to the metric whose
\* grouping raises
RowsUntilRaise(cik, facts_data, i) ==
    IF i > Len(Metrics) THEN <<>>
    ELSE IF GroupRaises(ExtractQuarterlyData(facts_data, Metrics[i].tag)[1]) THEN <<>>
    ELSE MetricRows(cik, facts_data, Metrics[i]) \o RowsUntilRaise(cik, facts_data, i + 1)

RECURSIVE CompanyRaises(_, _)
CompanyRaises(facts_data, i) ==
    /\ i <= Len(Metrics)
    /\ \/ GroupRaises(ExtractQuarterlyData(facts_data, Metrics[i].tag)[1])
       \/ CompanyRaises(facts_data, i + 1)

\* the calls are interchangeable: they are numbered in the order of their CIKs
CikNo(c) == IF c = FirstCik THEN 1 ELSE 2

\* what the API answers to the calls: nothing, two quarters of revenue, or
\* two facts of one quarter of which one has no filed date
CallerResponses == {r \in BatchResponses : r.concept # "NetIncomeLoss"}

InitCallers ==
    /\ api \in [CIKS -> CallerResponses]
    /\ ciks = <<>>
    /\ pc = "parallel"
    /\ company_data = NoResponse
    /\ metric_idx = 0
    /\ fiscal_years = EmptyDict
    /\ sorted_years = <<>>
    /\ quarters_shown = 0
    /\ ytd_shown = FALSE
    /\ db = EmptyDb
    /\ successful = 0
    /\ running \in [Workers -> [cik : CIKS, at : {"called"}, todo : {<<>>}]]
    /\ \A w \in Workers : w > 1 => CikNo(running[w - 1].cik) <= CikNo(running[w].cik)
    /\ IdleII /\ IdleIII /\ IdleIV /\ IdleV

\* lines 164-170 and the computation of the call's rows from its own facts
CallGetsFacts(w) ==
    /\ running[w].at = "called"
    /\ running' =
          [running EXCEPT ![w] =
              IF api[running[w].cik].ok
              THEN [cik |-> running[w].cik, at |-> "inserting",
                    todo |-> RowsUntilRaise(running[w].cik, api[running[w].cik], 1)]
              ELSE [cik |-> running[w].cik, at |-> "returned False", todo |-> <<>>]]
    /\ UNCHANGED <<api, ciks, pc, company_data, metric_idx, fiscal_years, sorted_years,
                   quarters_shown, ytd_shown, db, successful, varsII, varsIII, varsIV,
                   varsV>>

\* the next insert_data of the call
CallInserts(w) ==
    /\ running[w].at = "inserting"
    /\ running[w].todo # <<>>
    /\ db' = InsertData(db, Head(running[w].todo))
    /\ running' = [running EXCEPT ![w].todo = Tail(@)]
    /\ UNCHANGED <<api, ciks, pc, company_data, metric_idx, fiscal_years, sorted_years,
                   quarters_shown, ytd_shown, successful, varsII, varsIII, varsIV, varsV>>

\* line 334, or the TypeError of line 267
CallEnds(w) ==
    /\ running[w].at = "inserting"
    /\ running[w].todo = <<>>
    /\ running' = [running EXCEPT ![w].at =
                      IF CompanyRaises(api[running[w].cik], 1) THEN "TypeError"
                      ELSE "returned True"]
    /\ UNCHANGED <<api, ciks, pc, company_data, metric_idx, fiscal_years, sorted_years,
                   quarters_shown, ytd_shown, db, successful, varsII, varsIII, varsIV,
                   varsV>>

NextCallers ==
    \/ \E w \in Workers : CallGetsFacts(w)
    \/ \E w \in Workers : CallInserts(w)
    \/ \E w \in Workers : CallEnds(w)

SpecCallers == InitCallers /\ [][NextCallers]_vars

(***************************************************************************)
(* C22: entities are independent: in every order and interleaving of the   *)
(* calls against one database, the rows held for a CIK are rows of that    *)
(* CIK processed alone, and once every call for the CIK has ended they are *)
(* exactly the rows of that CIK processed alone.                           *)
(***************************************************************************)
RowsOfCik(c) == {r \in AllRows : r.cik = c}

\* the rows of a run that processes c alone
RowsAlone(c) == IF api[c].ok THEN Range(RowsUntilRaise(c, api[c], 1)) ELSE {}

CallsOf(c) == {w \in DOMAIN running : running[w].cik = c}

Ended(w) == running[w].at \in {"returned True", "returned False", "TypeError"}

C22_MainEntitiesIndependent ==
    \A c \in CIKS :
        /\ RowsOfCik(c) \subseteq RowsAlone(c)
        /\ (pc = "done" /\ RowsOfCik(c) # {}) => RowsOfCik(c) = RowsAlone(c)

(***************************************************************************)
(* Vocabulary of the properties of saved filings                           *)
(***************************************************************************)
\* the rows of financial_statements that the tag search of a metric produced
TagRows(xm) ==
    {r \in Range(x_db) :
        /\ r.statement_type = xm.stmt
        /\ r.metric_name = xm.metric
        /\ r.context_ref = <<xm.stmt, xm.metric>>}

\* the items (tag, value) the tag search of a metric finds in the filing
ValuesOf(xm) == ExtractValuesDirectSearch(xcontent, FINANCIAL_TAGS[xm.metric])

(***************************************************************************)
(* C23: after a filing has been saved, the value persisted for a metric    *)
(* the tag search found is the value of the earliest alias of the metric's *)
(* FINANCIAL_TAGS list that matched, also when a later alias matched with  *)
(* another value.                                                          *)
(***************************************************************************)
C23_EarlierAliasPersisted ==
    xpc = "returned" =>
        \A i \in DOMAIN XMetrics :
            ValuesOf(XMetrics[i]) # <<>> =>
                /\ TagRows(XMetrics[i]) # {}
                /\ \A r \in TagRows(XMetrics[i]) :
                      r.metric_value = ValuesOf(XMetrics[i])[1][2]

(***************************************************************************)
(* C26: HTML-table extraction is a fallback: a metric for which the tag    *)
(* search produced a data point gets no data point from the HTML tables,   *)
(* and the data points saved for a filing hold at most one value per       *)
(* metric.                                                                 *)
(***************************************************************************)
FromTables(dp) == dp.context_ref = <<"HTML_Table">>

PointsOfMetric(metric) == {k \in DOMAIN x_all_data : x_all_data[k].metric_name = metric}

C26_HtmlTablesOnlyAsFallback ==
    xpc \in {"save", "returned"} =>
        \A j, k \in DOMAIN x_all_data :
            (j # k /\ x_all_data[j].metric_name = x_all_data[k].metric_name)
                => /\ ~(FromTables(x_all_data[j]) /\ ~FromTables(x_all_data[k]))
                   /\ Cardinality(PointsOfMetric(x_all_data[j].metric_name)) <= 1

(***************************************************************************)
(* C24: a record with a NULL metric does not stop the ratio production of  *)
(* the importer: when the run has ended, every record without a NULL       *)
(* metric that has a balance sheet has its ratios in the table, among them *)
(* the records processed before the record with the NULL.                  *)
(***************************************************************************)
HasNull(row) == \E m \in RatioMetrics : row[m] = NULL

C24_NullMetricDoesNotStopRatios ==
    rpc = "closed" =>
        \A i \in DOMAIN fin_rows :
            (~HasNull(fin_rows[i]) /\ balance_sheets[fin_rows[i].quarter] # <<>>)
                => \E r \in Range(ratios) : r = RatiosOf(fin_rows[i], BalanceOfRow(i))

(***************************************************************************)
(* C25: year-to-date differencing is applied only to cumulative metrics:   *)
(* every 'Quarterly' row of a balance-sheet metric carries the value       *)
(* reported for its quarter, whether or not the preceding quarter has a    *)
(* fact.                                                                   *)
(***************************************************************************)
C25_BalanceSheetNotDifferenced ==
    \A r \in AllRows :
        (r.statement_type = "Balance Sheet" /\ r.value_type = "Quarterly")
            => r.value
                  = Retained(r.cik, r.metric_tag)[r.fiscal_year][r.fiscal_period].value

(***************************************************************************)
(* C27: for each metric of an entity, process_company emits at most        *)
(* NUM_QUARTERS 'Quarterly' rows, the most recent quarters first (a        *)
(* quarter is emitted only when every more recent quarter of the metric    *)
(* is), a 'Full Year' row of a fiscal year only while fewer than           *)
(* NUM_QUARTERS quarterly rows of that and the more recent years have been *)
(* emitted, and at most one 'YTD' row, which is for the latest quarter of  *)
(* the most recent fiscal year that has a quarterly fact.                  *)
(***************************************************************************)
RowsOfType(c, m, value_type) == {r \in RowsOfMetric(c, m) : r.value_type = value_type}

MoreRecent(k, fy, fp) ==
    k[1] > fy \/ (k[1] = fy /\ QuarterNo(k[2]) > QuarterNo(fp))

QuarterlyRowOf(c, m, k) ==
    \E r \in RowsOfType(c, m, "Quarterly") : r.fiscal_year = k[1] /\ r.fiscal_period = k[2]

C27_AtMostNumQuartersMostRecentFirst ==
    \A c \in CIKS : \A i \in DOMAIN Metrics :
        /\ Cardinality(RowsOfType(c, Metrics[i], "Quarterly")) <= NUM_QUARTERS
        /\ \A r \in RowsOfType(c, Metrics[i], "Quarterly") :
              \A k \in QuarterKeys(c, Metrics[i].tag) :
                  MoreRecent(k, r.fiscal_year, r.fiscal_period)
                      => QuarterlyRowOf(c, Metrics[i], k)
        /\ \A r \in RowsOfType(c, Metrics[i], "Full Year") :
              Cardinality({q \in RowsOfType(c, Metrics[i], "Quarterly") :
                              q.fiscal_year >= r.fiscal_year}) < NUM_QUARTERS
        /\ Cardinality(RowsOfType(c, Metrics[i], "YTD")) <= 1
        /\ \A r \in RowsOfType(c, Metrics[i], "YTD") :
              /\ <<r.fiscal_year, r.fiscal_period>> \in QuarterKeys(c, Metrics[i].tag)
              /\ \A k \in QuarterKeys(c, Metrics[i].tag) :
                    ~MoreRecent(k, r.fiscal_year, r.fiscal_period)

\* a finished run over more than NUM_QUARTERS quarters of a metric: it holds
\* NUM_QUARTERS quarterly rows, one YTD row, and the 'Full Year' row of one
\* fiscal year but not of another that has an FY fact
C27_Witness ==
    /\ pc = "done"
    /\ Cardinality(QuarterKeys(FirstCik, RevenueTag)) > NUM_QUARTERS
    /\ Cardinality(RowsOfType(FirstCik, Metrics[1], "Quarterly")) = NUM_QUARTERS
    /\ Cardinality(RowsOfType(FirstCik, Metrics[1], "YTD")) = 1
    /\ \E r \in RowsOfType(FirstCik, Metrics[1], "Full Year") :
          \E f \in UsableFacts(FirstCik, RevenueTag) :
              /\ f.fp = "FY"
              /\ f.fy < r.fiscal_year
              /\ ~HasOutput(FirstCik, Metrics[1], f.fy, "FY")

(***************************************************************************)
(* Part VI.  get_data.py: one run of __main__ over the tickers requested.  *)
(* Times are hours; processed_at is what SQLite's CURRENT_TIMESTAMP        *)
(* stores, a UTC time, and datetime.now() is the local wall clock.         *)
(***************************************************************************)
FORCE_REFRESH_DAYS == 30

MaxRequested == 2

MaxRuns == 2

Tickers == {"AAPL", "ASML"}

\* the UTC time of the run: late enough for an entry older than the window
UtcNow == FORCE_REFRESH_DAYS * 24 + 1

\* local clocks behind UTC, on UTC and ahead of UTC
UtcOffsets == {0 - 2, 0, 2}

LogEntry(ticker, status, processed_at) ==
    [ticker |-> ticker, status |-> status, processed_at |-> processed_at]

\* get_successfully_processed_tickers: the cutoff is the local wall clock
\* minus FORCE_REFRESH_DAYS, compared with the UTC time stored in processed_at
GetSuccessfullyProcessedTickers(log, offset) ==
    LET cutoff_date == (UtcNow + offset) - FORCE_REFRESH_DAYS * 24
    IN  { log[i].ticker : i \in { j \in DOMAIN log : /\ log[j].status = "SUCCESS"
                                                     /\ log[j].processed_at >= cutoff_date } }

NotIn(S, t) == t \notin S

\* get_tickers_to_process
GetTickersToProcess(requested, log, offset, force) ==
    IF force
    THEN requested
    ELSE LET successful_tickers == GetSuccessfullyProcessedTickers(log, offset)
         IN  SelectSeq(requested, LAMBDA t : NotIn(successful_tickers, t))

\* a row of a frame or of a table; bindable: SQLite can bind every value of it
DataRow(ticker, year, revenue, bindable) ==
    [ticker |-> ticker, year |-> year, revenue |-> revenue, bindable |-> bindable]

SamePair(a, b) == a.ticker = b.ticker /\ a.year = b.year

PairStored(table, row) == \E i \in DOMAIN table : SamePair(table[i], row)

UpdatePair(table, row) ==
    [i \in DOMAIN table |-> IF SamePair(table[i], row) THEN row ELSE table[i]]

\* the body of the loop of save_financial_data_directly, run whatever FORCE_REFRESH is
SaveRowReplacing(table, row, force) ==
    IF PairStored(table, row)
    THEN IF row.bindable THEN UpdatePair(table, row) ELSE table
    ELSE IF row.bindable THEN Append(table, row) ELSE table

\* the body of the loop of save_financial_data_directly: SELECT, then UPDATE
\* under FORCE_REFRESH or INSERT; a statement that raises is logged and the
\* loop continues
SaveRow(table, row, force) ==
    IF PairStored(table, row)
    THEN IF force
         THEN IF row.bindable THEN UpdatePair(table, row) ELSE table
         ELSE table
    ELSE IF row.bindable THEN Append(table, row) ELSE table

RECURSIVE SaveRows(_, _, _, _)
SaveRows(table, df, i, force) ==
    IF i > Len(df) THEN table
    ELSE SaveRows(SaveRow(table, df[i], force), df, i + 1, force)

SaveFinancialDataDirectly(table, df, force) == SaveRows(table, df, 1, force)

SaveIncomeStatementsDirectly(table, income_statements_list, force) ==
    SaveRows(table, income_statements_list, 1, force)

\* clean_financial_data: the frames are concatenated
RECURSIVE CleanFinancialData(_)
CleanFinancialData(df_list) ==
    IF df_list = <<>> THEN <<>>
    ELSE Head(df_list) \o CleanFinancialData(Tail(df_list))

YahooAnswer(kind, frame, income) == [kind |-> kind, frame |-> frame, income |-> income]

\* what yfinance can answer for a ticker: no income statement, an exception,
\* one year, a year that cannot be stored before one that can, and a year
\* whose detailed income statement could not be extracted
YahooAnswers(t) ==
    { YahooAnswer("empty", <<>>, <<>>),
      YahooAnswer("raises", <<>>, <<>>),
      YahooAnswer("data", << DataRow(t, 2023, 999, TRUE) >>, << DataRow(t, 2023, 999, TRUE) >>),
      YahooAnswer("data", << DataRow(t, 2022, 50, FALSE), DataRow(t, 2023, 999, TRUE) >>,
                          << DataRow(t, 2023, 999, TRUE) >>),
      YahooAnswer("data", << DataRow(t, 2023, 999, TRUE) >>, <<>>) }

YahooWorlds ==
    { y \in [Tickers -> UNION { YahooAnswers(t) : t \in Tickers }] :
        \A t \in Tickers : y[t] \in YahooAnswers(t) }

\* the log entries one ticker can have left from earlier runs
LogOf(t) ==
    { <<>>,
      << LogEntry(t, "ERROR", UtcNow) >>,
      << LogEntry(t, "SUCCESS", UtcNow - (FORCE_REFRESH_DAYS * 24 + 1)),
         LogEntry(t, "ERROR", UtcNow) >> }
    \cup { << LogEntry(t, "SUCCESS", UtcNow - age) >> :
             age \in {0, FORCE_REFRESH_DAYS * 24 - 1, FORCE_REFRESH_DAYS * 24 + 1} }

StoredYear(t) == DataRow(t, 2023, 100, TRUE)

RequestedLists == SeqsUpTo(Tickers, MaxRequested) \ { <<>> }

\* (a) a database that earlier runs have filled, under every local clock;
\* (b) a database without log entries, under every answer of yfinance
InitRun ==
    /\ \/ /\ \E la \in LogOf("AAPL"), lb \in LogOf("ASML") :
                processing_log \in {la \o lb, lb \o la}
          /\ financial_statements = << StoredYear("AAPL"), StoredYear("ASML") >>
          /\ income_statements = << StoredYear("AAPL"), StoredYear("ASML") >>
          /\ utc_offset \in UtcOffsets
          /\ force_refresh = FALSE
          /\ yahoo = [t \in Tickers |-> YahooAnswer("data", << DataRow(t, 2023, 999, TRUE) >>,
                                                    << DataRow(t, 2023, 999, TRUE) >>)]
          /\ runs = MaxRuns
       \/ /\ processing_log = <<>>
          /\ financial_statements \in { <<>>, << StoredYear("AAPL") >> }
          /\ income_statements = <<>>
          /\ utc_offset = 0
          /\ force_refresh \in BOOLEAN
          /\ yahoo \in YahooWorlds
          /\ runs = 1
    /\ tickers_requested \in RequestedLists
    /\ tickers_to_process = <<>>
    /\ ticker_idx = 0
    /\ all_financial_data = <<>>
    /\ all_income_statements = <<>>
    /\ run_pc = "start"

IdleYear ==
    /\ income_stmt = None
    /\ year_idx = 0
    /\ income_arg = EmptyDict
    /\ g_year_data = EmptyDict
    /\ previous_year_data = <<>>
    /\ income_data_list = <<>>
    /\ g_balance = <<>>
    /\ g_financial = <<>>
    /\ g_ratios = <<>>
    /\ gpc = "idle"

\* __main__, lines 1138-1157: the tickers are filtered; with nothing left
\* the run ends
FilterTickers ==
    /\ run_pc = "start"
    /\ tickers_to_process' = GetTickersToProcess(tickers_requested, processing_log,
                                                 utc_offset, force_refresh)
    /\ ticker_idx' = 1
    /\ run_pc' = IF tickers_to_process' = <<>> THEN "nothing_to_do" ELSE "fetch"
    /\ UNCHANGED <<force_refresh, utc_offset, tickers_requested, yahoo,
                   all_financial_data, all_income_statements, processing_log,
                   financial_statements, income_statements, runs,
                   varsYear, varsI, varsII, varsIII, varsIV>>

\* fetch_financial_data_batch, lines 654-657: no income statement
FetchNoIncome ==
    /\ run_pc = "fetch"
    /\ ticker_idx <= Len(tickers_to_process)
    /\ yahoo[tickers_to_process[ticker_idx]].kind = "empty"
    /\ processing_log' = Append(processing_log,
                                LogEntry(tickers_to_process[ticker_idx], "ERROR", UtcNow))
    /\ ticker_idx' = ticker_idx + 1
    /\ UNCHANGED <<force_refresh, utc_offset, tickers_requested, tickers_to_process,
                   yahoo, all_financial_data, all_income_statements,
                   financial_statements, income_statements, runs, run_pc,
                   varsYear, varsI, varsII, varsIII, varsIV>>

\* fetch_financial_data_batch, lines 699-703: the download raises
FetchRaises ==
    /\ run_pc = "fetch"
    /\ ticker_idx <= Len(tickers_to_process)
    /\ yahoo[tickers_to_process[ticker_idx]].kind = "raises"
    /\ processing_log' = Append(processing_log,
                                LogEntry(tickers_to_process[ticker_idx], "ERROR", UtcNow))
    /\ ticker_idx' = ticker_idx + 1
    /\ UNCHANGED <<force_refresh, utc_offset, tickers_requested, tickers_to_process,
                   yahoo, all_financial_data, all_income_statements,
                   financial_statements, income_statements, runs, run_pc,
                   varsYear, varsI, varsII, varsIII, varsIV>>

\* fetch_financial_data_batch, lines 659-690: the frame and the income
\* records are collected in memory and SUCCESS is logged
FetchSucceeds ==
    /\ run_pc = "fetch"
    /\ ticker_idx <= Len(tickers_to_process)
    /\ yahoo[tickers_to_process[ticker_idx]].kind = "data"
    /\ all_financial_data' = Append(all_financial_data,
                                    yahoo[tickers_to_process[ticker_idx]].frame)
    /\ all_income_statements' = all_income_statements \o
                                    yahoo[tickers_to_process[ticker_idx]].income
    /\ processing_log' = Append(processing_log,
                                LogEntry(tickers_to_process[ticker_idx], "SUCCESS", UtcNow))
    /\ ticker_idx' = ticker_idx + 1
    /\ UNCHANGED <<force_refresh, utc_offset, tickers_requested, tickers_to_process,
                   yahoo, financial_statements, income_statements, runs, run_pc,
                   varsYear, varsI, varsII, varsIII, varsIV>>

\* __main__, lines 1160-1171: the batch has returned; the frames are cleaned
\* and saved
SaveFinancialData ==
    /\ run_pc = "fetch"
    /\ ticker_idx > Len(tickers_to_process)
    /\ financial_statements' =
          IF all_financial_data # <<>>
          THEN SaveFinancialDataDirectly(financial_statements,
                                         CleanFinancialData(all_financial_data), force_refresh)
          ELSE financial_statements
    /\ run_pc' = "save_income"
    /\ UNCHANGED <<force_refresh, utc_offset, tickers_requested, tickers_to_process,
                   ticker_idx, yahoo, all_financial_data, all_income_statements,
                   processing_log, income_statements, runs,
                   varsYear, varsI, varsII, varsIII, varsIV>>

\* __main__, lines 1174-1176
SaveIncomeStatements ==
    /\ run_pc = "save_income"
    /\ income_statements' =
          SaveIncomeStatementsDirectly(income_statements, all_income_statements, force_refresh)
    /\ run_pc' = "done"
    /\ UNCHANGED <<force_refresh, utc_offset, tickers_requested, tickers_to_process,
                   ticker_idx, yahoo, all_financial_data, all_income_statements,
                   processing_log, financial_statements, runs,
                   varsYear, varsI, varsII, varsIII, varsIV>>

\* the process is stopped between two steps of __main__: what is in memory
\* is lost, what was committed stays
Interrupt ==
    /\ run_pc \in {"fetch", "save_income"}
    /\ run_pc' = "interrupted"
    /\ UNCHANGED <<force_refresh, utc_offset, tickers_requested, tickers_to_process,
                   ticker_idx, yahoo, all_financial_data, all_income_statements,
                   processing_log, financial_statements, income_statements, runs,
                   varsYear, varsI, varsII, varsIII, varsIV>>

\* the script is started again on the same database, within the hour
StartAgain ==
    /\ run_pc \in {"done", "interrupted", "nothing_to_do"}
    /\ runs < MaxRuns
    /\ runs' = runs + 1
    /\ tickers_to_process' = <<>>
    /\ ticker_idx' = 0
    /\ all_financial_data' = <<>>
    /\ all_income_statements' = <<>>
    /\ run_pc' = "start"
    /\ UNCHANGED <<force_refresh, utc_offset, tickers_requested, yahoo,
                   processing_log, financial_statements, income_statements,
                   varsYear, varsI, varsII, varsIII, varsIV>>

NextRun ==
    \/ FilterTickers \/ FetchNoIncome \/ FetchRaises \/ FetchSucceeds
    \/ SaveFinancialData \/ SaveIncomeStatements \/ Interrupt \/ StartAgain

InitGetDataRun == IdleI /\ IdleII /\ IdleIII /\ IdleIV /\ IdleYear /\ InitRun

SpecRun == InitGetDataRun /\ [][NextRun]_vars

(***************************************************************************)
(* Vocabulary of the properties of Part VI                                 *)
(***************************************************************************)
\* get_tickers_to_process has just returned: the log is the one it read
JustFiltered ==
    \/ run_pc = "nothing_to_do"
    \/ run_pc = "fetch" /\ ticker_idx = 1

\* the log holds a SUCCESS entry of the ticker written within the last
\* FORCE_REFRESH_DAYS days
RecentSuccess(t) ==
    \E i \in DOMAIN processing_log :
        /\ processing_log[i].ticker = t
        /\ processing_log[i].status = "SUCCESS"
        /\ UtcNow - processing_log[i].processed_at <= FORCE_REFRESH_DAYS * 24

NoRecentSuccess(t) == ~RecentSuccess(t)

ExpectedToProcess ==
    IF force_refresh
    THEN tickers_requested
    ELSE SelectSeq(tickers_requested, NoRecentSuccess)

\* C28: with FORCE_REFRESH false, get_tickers_to_process returns exactly the
\* requested tickers without a SUCCESS entry in processing_log within the
\* last FORCE_REFRESH_DAYS days, in their requested order; with FORCE_REFRESH
\* true it returns every requested ticker.
C28_ExactlyTheTickersWithoutRecentSuccess ==
    JustFiltered => tickers_to_process = ExpectedToProcess

\* the same statement where the local clock is the UTC clock
C28_OnUtcClock ==
    (JustFiltered /\ utc_offset = 0) => tickers_to_process = ExpectedToProcess

\* the table holds a row of the ticker
HasRows(table, t) == \E i \in DOMAIN table : table[i].ticker = t

\* C29: in every reachable state of a get_data run, an interrupted one
\* included, a ticker has a SUCCESS entry in processing_log only if its rows
\* of financial_statements and of income_statements are already saved.
C29_SuccessOnlyAfterSaved ==
    \A i \in DOMAIN processing_log :
        processing_log[i].status = "SUCCESS" =>
            /\ HasRows(financial_statements, processing_log[i].ticker)
            /\ HasRows(income_statements, processing_log[i].ticker)

\* a later run has left out a ticker as already processed and the database
\* holds no row of it
SkippedWithoutData ==
    /\ runs = MaxRuns
    /\ JustFiltered
    /\ \E i \in DOMAIN tickers_requested :
          /\ tickers_requested[i] \notin Range(tickers_to_process)
          /\ ~HasRows(financial_statements, tickers_requested[i])
          /\ ~HasRows(income_statements, tickers_requested[i])

\* what save_financial_data_directly was given in this run
CleanedFrame == CleanFinancialData(all_financial_data)

\* the rows the table held are where they were, with the values they had
ExistingRowsKept(old, new) ==
    /\ Len(new) >= Len(old)
    /\ \A i \in DOMAIN old : new[i] = old[i]

\* every row added is a row of the frame whose (ticker, year) the table did
\* not hold, and no (ticker, year) was added twice
OnlyNewPairsInserted(old, new, df) ==
    \A i \in DOMAIN new : i > Len(old) =>
        /\ ~PairStored(old, new[i])
        /\ new[i] \in Range(df)
        /\ \A j \in DOMAIN new : (j > Len(old) /\ SamePair(new[i], new[j])) => j = i

\* every row of the frame that can be stored and whose (ticker, year) the
\* table did not hold has its (ticker, year) in the table, whatever rows
\* before it failed
FailuresSkipped(old, new, df) ==
    \A k \in DOMAIN df : (df[k].bindable /\ ~PairStored(old, df[k])) => PairStored(new, df[k])

\* C30: with FORCE_REFRESH false, save_financial_data_directly leaves every
\* existing row of the table unchanged, inserts only (ticker, year) pairs not
\* yet stored, and a failure on one row does not prevent the remaining rows
\* from being saved.
C30_ExistingRowsUntouched ==
    [][ (SaveFinancialData /\ ~force_refresh) =>
            /\ ExistingRowsKept(financial_statements, financial_statements')
            /\ OnlyNewPairsInserted(financial_statements, financial_statements', CleanedFrame)
            /\ FailuresSkipped(financial_statements, financial_statements', CleanedFrame) ]_vars

\* the frame has been saved with FORCE_REFRESH false: a stored (ticker, year)
\* came again with another value and kept its own, a row of the frame could
\* not be stored, and a row after it is in the table
C30_Witness ==
    /\ run_pc = "save_income"
    /\ ~force_refresh
    /\ \E i \in DOMAIN financial_statements, k \in DOMAIN CleanedFrame :
          /\ SamePair(financial_statements[i], CleanedFrame[k])
          /\ financial_statements[i].revenue # CleanedFrame[k].revenue
    /\ \E k1 \in DOMAIN CleanedFrame, k2 \in DOMAIN CleanedFrame :
          /\ k1 < k2
          /\ ~CleanedFrame[k1].bindable
          /\ ~PairStored(financial_statements, CleanedFrame[k1])
          /\ CleanedFrame[k2] \in Range(financial_statements)

====
